---------------------------- MODULE Spec2Model ----------------------------
(***************************************************************************)
(* A model of pyCCMM: the typed Dataset aggregate (ccmm_models.py), its    *)
(* schema-ordered rendering, and the CCMMHandler facade (ccmm_handler.py)  *)
(* with its validators, its validity check and its file export.            *)
(*                                                                         *)
(* Conventions                                                             *)
(*  - a Python str is a sequence of tokens; user text is written one       *)
(*    character per token, a literal of the program (an enum's wire value, *)
(*    a default) is one token;                                             *)
(*  - an Optional value is a sequence of length 0 (None) or 1;             *)
(*  - an argument annotated with an Enum is a record [kind, value]: kind   *)
(*    "enum" is a member of the Enum, kind "str" a plain string passed in  *)
(*    its place (Python does not enforce the annotation);                  *)
(*  - an XML element is a record [tag, attrib, text, kids].                *)
(***************************************************************************)
EXTENDS Integers, Sequences, FiniteSets, TLC

VARIABLES
    dataset,    \* CCMMHandler.dataset, the Dataset aggregate
    lists,      \* the list objects created by the caller (passed by reference)
    added,      \* history: per repeated group, the successful add_* calls
    last,       \* the last facade call: its name, arguments and outcome
    file,       \* the destination file of save_to_file
    ccmm_path,  \* CCMMHandler.ccmm_path, the root of the schema directory
    metadata,   \* CCMMMetadataHandler.metadata, the root of its element tree
    required_fields,    \* CCMMMetadataHandler.required_fields
    succeeded   \* history: the CCMMMetadataHandler mutators and loads that
                \* have returned normally

\* the state of the CCMMMetadataHandler instance
mh_vars == <<metadata, required_fields, succeeded>>

vars == <<dataset, lists, added, last, file, ccmm_path, metadata,
          required_fields, succeeded>>

-----------------------------------------------------------------------------
(* Bounds of the exploration *)

\* the number of successful mutator calls explored when every operation of
\* the facade is offered
MaxCalls == 2

\* the number of elements beyond the schema's minimum explored when only
\* the operations on the required fields are offered
MaxExtra == 1

\* the clock readings explored are DefaultYear .. DefaultYear + ClockSpan
ClockSpan == 1

-----------------------------------------------------------------------------
(* Python values *)

None == <<>>
Some(v) == <<v>>

\* bool(x) of an Optional[str]: None and "" are falsy
Truthy(opt) == opt # None /\ opt[1] # <<>>

\* a member of an Enum, and a plain string passed where a member is expected
Member(v) == [kind |-> "enum", value |-> v]
RawStr(v) == [kind |-> "str", value |-> v]

Whitespace == {" ", "\t", "\n"}

RECURSIVE lstrip(_)
lstrip(s) ==
    IF s # <<>> /\ Head(s) \in Whitespace THEN lstrip(Tail(s)) ELSE s

RECURSIVE rstrip(_)
rstrip(s) ==
    IF s # <<>> /\ s[Len(s)] \in Whitespace
    THEN rstrip(SubSeq(s, 1, Len(s) - 1))
    ELSE s

\* str.strip()
strip(s) == rstrip(lstrip(s))

\* s.find(c): the first index of token c in s, 0 when absent
find(s, c) ==
    IF \E i \in 1..Len(s) : s[i] = c
    THEN CHOOSE i \in 1..Len(s) : s[i] = c /\ \A j \in 1..(i - 1) : s[j] # c
    ELSE 0

Letters == {"a", "b", "c", "d", "e", "h", "m", "o", "p", "r", "s", "t", "x", "z",
            "A", "D", "T"}
Digits == {"0", "1", "2", "3", "4", "5", "6", "7", "8", "9"}


-----------------------------------------------------------------------------
(* ccmm_handler.py: the input validators.  Each is TRUE when the Python    *)
(* method returns normally and FALSE when it raises ValueError.            *)

_validate_non_empty_string(value) ==
    ~(value = <<>> \/ strip(value) = <<>>)

SchemeChars == Letters \cup Digits \cup {"+", "-", "."}

\* urllib.parse.urlsplit, first step: leading blanks are stripped and
\* tab / newline characters are removed from the whole text
UrlClean(url) ==
    LET body == lstrip(url)
    IN SelectSeq(body, LAMBDA c : c \notin {"\t", "\n"})

\* urllib.parse.urlsplit: the scheme is the text before the first ":" when
\* that text starts with a letter and holds scheme characters only; the
\* netloc is what follows a leading "//" up to the next "/", "?" or "#"
urlparse(uri) ==
    LET url == UrlClean(uri)
        i == find(url, ":")
        hasScheme == /\ i > 1
                     /\ url[1] \in Letters
                     /\ \A k \in 1..(i - 1) : url[k] \in SchemeChars
        scheme == IF hasScheme THEN SubSeq(url, 1, i - 1) ELSE <<>>
        rest == IF hasScheme THEN SubSeq(url, i + 1, Len(url)) ELSE url
        slashes == Len(rest) >= 2 /\ rest[1] = "/" /\ rest[2] = "/"
        ends == {k \in 3..Len(rest) : rest[k] \in {"/", "?", "#"}}
        delim == IF ends = {} THEN Len(rest) + 1
                 ELSE CHOOSE k \in ends : \A j \in ends : k <= j
        netloc == IF slashes THEN SubSeq(rest, 3, delim - 1) ELSE <<>>
    IN [scheme |-> scheme, netloc |-> netloc]

\* a variant that looks at the scheme only
_validate_uri_scheme_only(uri) ==
    /\ ~(uri = <<>> \/ strip(uri) = <<>>)
    /\ urlparse(uri).scheme # <<>>

_validate_uri(uri) ==
    /\ ~(uri = <<>> \/ strip(uri) = <<>>)
    /\ LET result == urlparse(uri)
       IN ~(result.scheme = <<>> \/ result.netloc = <<>>)

\* a variant without the lower bound
_validate_year_no_lower_bound(year, current_year) ==
    ~(year > current_year + 10)

\* a variant with the upper bound excluded
_validate_year_exclusive(year, current_year) ==
    ~(year < 1000 \/ year >= current_year + 10)

\* the year is valid for the clock reading current_year
_validate_year(year, current_year) ==
    ~(year < 1000 \/ year > current_year + 10)

EmailLocalChars == Letters \cup Digits \cup {".", "_", "%", "+", "-"}
EmailDomainChars == Letters \cup Digits \cup {".", "-"}

\* re.match(r'^[a-zA-Z0-9._%+-]+@[a-zA-Z0-9.-]+\.[a-zA-Z]{2,}$', s) without
\* the optional final newline that "$" tolerates
EmailPatternMatches(s) ==
    \E at \in 1..Len(s) : \E dot \in (at + 1)..Len(s) :
        /\ s[at] = "@"
        /\ s[dot] = "."
        /\ at > 1
        /\ \A k \in 1..(at - 1) : s[k] \in EmailLocalChars
        /\ dot > at + 1
        /\ \A k \in (at + 1)..(dot - 1) : s[k] \in EmailDomainChars
        /\ Len(s) - dot >= 2
        /\ \A k \in (dot + 1)..Len(s) : s[k] \in Letters

_validate_email(email) ==
    \/ EmailPatternMatches(email)
    \/ /\ email # <<>>
       /\ email[Len(email)] = "\n"
       /\ EmailPatternMatches(SubSeq(email, 1, Len(email) - 1))

-----------------------------------------------------------------------------
(* ccmm_models.py: XML elements and the rendering of each entity.          *)

\* ET.Element / ET.SubElement
Element(tag, attrib, text, kids) ==
    [tag |-> tag, attrib |-> attrib, text |-> text, kids |-> kids]

Leaf(tag, text) == Element(tag, <<>>, text, <<>>)

\* an element of a tree that is kept and serialised as it is: with its tail,
\* the text between its end tag and the next start tag
Node(tag, attrib, text, kids) ==
    [tag |-> tag, attrib |-> attrib, text |-> text, tail |-> <<>>,
     kids |-> kids]

TextNode(tag, text) == Node(tag, <<>>, text, <<>>)

\* the outcome of a to_xml_element call that raised (AttributeError: a
\* plain str has no attribute "value", or no method "isoformat")
RenderError == Element("!AttributeError", <<>>, <<>>, <<>>)

Raised(elem) == elem.tag = "!AttributeError"

\* a parent whose child could not be built is not built either
Build(tag, attrib, text, kids) ==
    IF \E i \in 1..Len(kids) : Raised(kids[i])
    THEN RenderError
    ELSE Element(tag, attrib, text, kids)

\* <tag><iri>value</iri></tag> for an Enum member; .value raises on a str
EnumLeaf(tag, e) ==
    IF e.kind = "enum" THEN Leaf(tag, <<e.value>>) ELSE RenderError

IriWrapped(tag, e) == Build(tag, <<>>, <<>>, <<EnumLeaf("iri", e)>>)

\* "if self.iri:" then an iri child
IriKid(iri) == IF Truthy(iri) THEN <<Leaf("iri", iri[1])>> ELSE <<>>

\* bool(x) of an Optional enum argument: None is falsy, a member is truthy,
\* a plain string is truthy unless empty
TruthyEnum(opt) ==
    opt # None /\ (opt[1].kind = "enum" \/ opt[1].value # "")

XmlLang == "{http://www.w3.org/XML/1998/namespace}lang"

MultiLanguageText_to_xml_element(mlt, element_name) ==
    IF mlt.language.kind = "enum"
    THEN Element(element_name, <<<<XmlLang, mlt.language.value>>>>, mlt.text, <<>>)
    ELSE RenderError

Identifier_to_xml_element(id) ==
    Build("identifier", <<>>, <<>>,
          IriKid(id.iri)
          \o <<Leaf("value", id.value)>>
          \o <<IriWrapped("scheme", id.scheme)>>)

AlternateTitle_to_xml_element(at) ==
    Build("alternate_title", <<>>, <<>>,
          IriKid(at.iri)
          \o [i \in 1..Len(at.titles) |->
                 MultiLanguageText_to_xml_element(at.titles[i], "title")]
          \o (IF Truthy(at.alternate_title_type)
              THEN <<Element("alternate_title_type", <<>>, <<>>,
                             <<Leaf("iri", at.alternate_title_type[1])>>)>>
              ELSE <<>>))

Description_to_xml_element(d) ==
    Build("has_description", <<>>, <<>>,
          IriKid(d.iri)
          \o <<Leaf("description_text", d.description_text)>>
          \o (IF Truthy(d.description_type)
              THEN <<Element("has_description_type", <<>>, <<>>,
                             <<Leaf("iri", d.description_type[1])>>)>>
              ELSE <<>>))

Subject_to_xml_element(s) ==
    Build("subject", <<>>, <<>>,
          IriKid(s.iri)
          \o [i \in 1..Len(s.definitions) |->
                 MultiLanguageText_to_xml_element(s.definitions[i], "definition")]
          \o [i \in 1..Len(s.titles) |->
                 MultiLanguageText_to_xml_element(s.titles[i], "title")]
          \o (IF Truthy(s.classification_code)
              THEN <<Leaf("classification_code", s.classification_code[1])>>
              ELSE <<>>)
          \o (IF TruthyEnum(s.subject_scheme)
              THEN <<IriWrapped("subject_scheme", s.subject_scheme[1])>>
              ELSE <<>>))

\* one decimal digit as a character
DigitChar(d) ==
    CASE d = 0 -> "0" [] d = 1 -> "1" [] d = 2 -> "2" [] d = 3 -> "3"
      [] d = 4 -> "4" [] d = 5 -> "5" [] d = 6 -> "6" [] d = 7 -> "7"
      [] d = 8 -> "8" [] OTHER -> "9"

\* str(n) of a non-negative int
RECURSIVE NatStr(_)
NatStr(n) ==
    IF n < 10 THEN <<DigitChar(n)>>
    ELSE NatStr(n \div 10) \o <<DigitChar(n % 10)>>

\* str(n) of an int
str(n) == IF n < 0 THEN <<"-">> \o NatStr(0 - n) ELSE NatStr(n)

\* n in decimal, zero-padded on the left to width w
RECURSIVE ZeroPad(_, _)
ZeroPad(digits, w) ==
    IF Len(digits) >= w THEN digits ELSE ZeroPad(<<"0">> \o digits, w)

\* datetime.date: a record [kind |-> "date", year, month, day]; the kind is
\* "str" for a plain string passed where a date is expected
Date(y, m, d) == [kind |-> "date", year |-> y, month |-> m, day |-> d]

\* date.isoformat(): YYYY-MM-DD
isoformat(d) ==
    ZeroPad(NatStr(d.year), 4) \o <<"-">> \o ZeroPad(NatStr(d.month), 2)
    \o <<"-">> \o ZeroPad(NatStr(d.day), 2)

DateLeaf(tag, d) ==
    IF d.kind = "date" THEN Leaf(tag, isoformat(d)) ELSE RenderError

\* the wrapped agent: <organization> or <person> with iri?, name, identifier?
AgentElement(tag, agent) ==
    Build(tag, <<>>, <<>>,
          IriKid(agent.iri)
          \o <<Leaf("name", agent.name)>>
          \o (IF agent.identifier # None
              THEN <<Identifier_to_xml_element(agent.identifier[1])>>
              ELSE <<>>))

\* a variant that renders every agent as a person
ResourceToAgentRelationship_to_xml_element_person_only(rel) ==
    Build("qualified_relation", <<>>, <<>>,
          IriKid(rel.iri)
          \o <<EnumLeaf("role", rel.role)>>
          \o <<Build("relation", <<>>, <<>>,
                     <<AgentElement("person", rel.agent)>>)>>)

ResourceToAgentRelationship_to_xml_element(rel) ==
    Build("qualified_relation", <<>>, <<>>,
          IriKid(rel.iri)
          \o <<EnumLeaf("role", rel.role)>>
          \o <<Build("relation", <<>>, <<>>,
                     <<IF rel.agent.agent_type = Member("organization")
                       THEN AgentElement("organization", rel.agent)
                       ELSE AgentElement("person", rel.agent)>>)>>)

TimeReference_to_xml_element(t) ==
    Build("time_reference", <<>>, <<>>,
          <<Build("time_instant", <<>>, <<>>,
                  IriKid(t.iri)
                  \o <<IriWrapped("date_type", t.time_type)>>
                  \o <<Leaf("date", t.time_value)>>)>>)

Location_to_xml_element(l) ==
    Build("location", <<>>, <<>>,
          IriKid(l.iri)
          \o <<Leaf("name", l.location_value)>>
          \o <<IriWrapped("relation_type", l.location_type)>>)

Distribution_to_xml_element(d) ==
    Build("distribution", <<>>, <<>>,
          <<Build("distribution_-_downloadable_file", <<>>, <<>>,
                  IriKid(d.iri)
                  \o <<Element("title", <<<<XmlLang, "cs">>>>,
                               IF Truthy(d.title) THEN d.title[1]
                               ELSE <<"Dataset file">>,
                               <<>>)>>
                  \o <<Leaf("byte_size", <<"1000">>)>>
                  \o <<Element("access_url", <<>>, <<>>,
                               <<Leaf("iri", d.access_url)>>)>>
                  \o (IF TruthyEnum(d.format_type)
                      THEN <<IriWrapped("format", d.format_type[1])>>
                      ELSE <<>>))>>)

TermsOfUse_to_xml_element(t) ==
    Build("terms_of_use", <<>>, <<>>,
          IriKid(t.iri)
          \o (IF Truthy(t.description)
              THEN <<Element("description", <<<<XmlLang, "cs">>>>,
                             t.description[1], <<>>)>>
              ELSE <<>>)
          \o <<Element("access_rights", <<>>, <<>>,
                       <<Leaf("iri", t.access_rights)>>)>>
          \o <<Element("license", <<>>, <<>>,
                       <<Leaf("iri", t.license_name)>>)>>)

\* A list of relationships is held by reference: the Dataset's own
\* qualified_relations list, or a list object created by the caller.
DatasetList == [owner |-> "dataset", id |-> 0]
CallerList(n) == [owner |-> "caller", id |-> n]

\* the current content of a referenced list
Deref(ref, ds, heap) ==
    IF ref.owner = "dataset" THEN ds.qualified_relations ELSE heap[ref.id]

MetadataRecord_to_xml_element(r, ds, heap) ==
    LET rels == Deref(r.qualified_relations, ds, heap)
    IN Build("is_described_by", <<>>, <<>>,
             IriKid(r.iri)
             \o [i \in 1..Len(r.date_updated) |->
                    DateLeaf("date_updated", r.date_updated[i])]
             \o (IF r.date_created # None
                 THEN <<DateLeaf("date_created", r.date_created[1])>>
                 ELSE <<>>)
             \o [i \in 1..Len(rels) |->
                    ResourceToAgentRelationship_to_xml_element(rels[i])]
             \o [i \in 1..Len(r.languages) |->
                    IriWrapped("language", r.languages[i])])

\* a variant that renders the identifiers after the distributions
Dataset_to_xml_element_late_identifiers(ds, heap) ==
    Build("dataset", <<>>, <<>>,
          IriKid(ds.iri)
          \o <<Leaf("publication_year", str(ds.publication_year))>>
          \o (IF Truthy(ds.version) THEN <<Leaf("version", ds.version[1])>>
              ELSE <<>>)
          \o <<Leaf("title", ds.title)>>
          \o [i \in 1..Len(ds.descriptions) |->
                 Description_to_xml_element(ds.descriptions[i])]
          \o [i \in 1..Len(ds.alternate_titles) |->
                 AlternateTitle_to_xml_element(ds.alternate_titles[i])]
          \o [i \in 1..Len(ds.metadata_records) |->
                 MetadataRecord_to_xml_element(ds.metadata_records[i], ds, heap)]
          \o [i \in 1..Len(ds.locations) |->
                 Location_to_xml_element(ds.locations[i])]
          \o [i \in 1..Len(ds.qualified_relations) |->
                 ResourceToAgentRelationship_to_xml_element(ds.qualified_relations[i])]
          \o [i \in 1..Len(ds.time_references) |->
                 TimeReference_to_xml_element(ds.time_references[i])]
          \o [i \in 1..Len(ds.subjects) |->
                 Subject_to_xml_element(ds.subjects[i])]
          \o [i \in 1..Len(ds.distributions) |->
                 Distribution_to_xml_element(ds.distributions[i])]
          \o [i \in 1..Len(ds.identifiers) |->
                 Identifier_to_xml_element(ds.identifiers[i])]
          \o <<TermsOfUse_to_xml_element(ds.terms_of_use)>>
          \o [i \in 1..Len(ds.other_languages) |->
                 IriWrapped("other_language", ds.other_languages[i])]
          \o (IF TruthyEnum(ds.primary_language)
              THEN <<IriWrapped("primary_language", ds.primary_language[1])>>
              ELSE <<>>))

\* Dataset.to_xml_element: the children in the order of the schema
Dataset_to_xml_element(ds, heap) ==
    Build("dataset", <<>>, <<>>,
          IriKid(ds.iri)
          \o <<Leaf("publication_year", str(ds.publication_year))>>
          \o (IF Truthy(ds.version) THEN <<Leaf("version", ds.version[1])>>
              ELSE <<>>)
          \o <<Leaf("title", ds.title)>>
          \o [i \in 1..Len(ds.descriptions) |->
                 Description_to_xml_element(ds.descriptions[i])]
          \o [i \in 1..Len(ds.alternate_titles) |->
                 AlternateTitle_to_xml_element(ds.alternate_titles[i])]
          \o [i \in 1..Len(ds.metadata_records) |->
                 MetadataRecord_to_xml_element(ds.metadata_records[i], ds, heap)]
          \o [i \in 1..Len(ds.identifiers) |->
                 Identifier_to_xml_element(ds.identifiers[i])]
          \o [i \in 1..Len(ds.locations) |->
                 Location_to_xml_element(ds.locations[i])]
          \o [i \in 1..Len(ds.qualified_relations) |->
                 ResourceToAgentRelationship_to_xml_element(ds.qualified_relations[i])]
          \o [i \in 1..Len(ds.time_references) |->
                 TimeReference_to_xml_element(ds.time_references[i])]
          \o [i \in 1..Len(ds.subjects) |->
                 Subject_to_xml_element(ds.subjects[i])]
          \o [i \in 1..Len(ds.distributions) |->
                 Distribution_to_xml_element(ds.distributions[i])]
          \o <<TermsOfUse_to_xml_element(ds.terms_of_use)>>
          \o [i \in 1..Len(ds.other_languages) |->
                 IriWrapped("other_language", ds.other_languages[i])]
          \o (IF TruthyEnum(ds.primary_language)
              THEN <<IriWrapped("primary_language", ds.primary_language[1])>>
              ELSE <<>>))

-----------------------------------------------------------------------------
(* Serialization.  A document text is a sequence of tokens: the markup     *)
(* tokens "<", "</", ">", " />", "/>", "=", a tag or attribute name, an    *)
(* attribute value, and the tokens of the character data.                  *)

\* xml.etree.ElementTree._escape_cdata
EscapeToken(c) ==
    CASE c = "&" -> "&amp;" [] c = "<" -> "&lt;" [] c = ">" -> "&gt;"
      [] OTHER -> c

\* the XML parser's replacement of the predefined entities
UnescapeToken(c) ==
    CASE c = "&amp;" -> "&" [] c = "&lt;" -> "<" [] c = "&gt;" -> ">"
      [] OTHER -> c

escape_cdata(text) == [i \in 1..Len(text) |-> EscapeToken(text[i])]

\* the qualified name written for an attribute in Clark notation
QName(name) == IF name = XmlLang THEN "xml:lang" ELSE name

\* the Clark notation the parser gives a prefixed attribute name
ClarkName(qname) == IF qname = "xml:lang" THEN XmlLang ELSE qname

RECURSIVE AttribTokens(_)
AttribTokens(attrib) ==
    IF attrib = <<>> THEN <<>>
    ELSE <<QName(attrib[1][1]), "=", attrib[1][2]>> \o AttribTokens(Tail(attrib))

RECURSIVE ET_tostring(_)
RECURSIVE ET_tostring_all(_)
\* ET.tostring(elem, encoding='unicode'): compact, an element without text
\* and without children is written "<tag />"
ET_tostring(elem) ==
    IF elem.text = <<>> /\ elem.kids = <<>>
    THEN <<"<", elem.tag>> \o AttribTokens(elem.attrib) \o <<" />">>
    ELSE <<"<", elem.tag>> \o AttribTokens(elem.attrib) \o <<">">>
         \o escape_cdata(elem.text)
         \o ET_tostring_all(elem.kids)
         \o <<"</", elem.tag, ">">>

ET_tostring_all(kids) ==
    IF kids = <<>> THEN <<>>
    ELSE ET_tostring(kids[1]) \o ET_tostring_all(Tail(kids))

\* The parser reads the tokens from position p and answers the element (or
\* the list of attributes, or the content) together with the position that
\* follows it.
RECURSIVE ParseAttrib(_, _)
ParseAttrib(t, p) ==
    IF t[p] \in {">", " />", "/>"} THEN [attrib |-> <<>>, next |-> p]
    ELSE LET more == ParseAttrib(t, p + 3)
         IN [attrib |-> <<<<ClarkName(t[p]), t[p + 2]>>>> \o more.attrib,
             next |-> more.next]

RECURSIVE ParseElement(_, _)
RECURSIVE ParseContent(_, _)
ParseElement(t, p) ==
    LET tag == t[p + 1]
        a == ParseAttrib(t, p + 2)
    IN IF t[a.next] \in {" />", "/>"}
       THEN [elem |-> Element(tag, a.attrib, <<>>, <<>>), next |-> a.next + 1]
       ELSE LET c == ParseContent(t, a.next + 1)
            IN [elem |-> Element(tag, a.attrib, c.text, c.kids),
                next |-> c.next + 3]

\* the content up to the closing tag: character data, then child elements
ParseContent(t, p) ==
    IF t[p] = "</" THEN [text |-> <<>>, kids |-> <<>>, next |-> p]
    ELSE IF t[p] = "<"
    THEN LET e == ParseElement(t, p)
             c == ParseContent(t, e.next)
         IN [text |-> c.text, kids |-> <<e.elem>> \o c.kids, next |-> c.next]
    ELSE LET c == ParseContent(t, p + 1)
         IN [text |-> <<UnescapeToken(t[p])>> \o c.text, kids |-> c.kids,
             next |-> c.next]

\* lxml.etree.fromstring(text): the root element of the document
etree_fromstring(text) == ParseElement(text, 1).elem

RECURSIVE Indent(_)
Indent(level) == IF level = 0 THEN <<>> ELSE <<"  ">> \o Indent(level - 1)

RECURSIVE PrettyElement(_, _)
RECURSIVE PrettyAll(_, _)
\* one element of lxml's pretty-printed output: an element with children
\* and no text gets one child per line, indented two blanks per level
PrettyElement(elem, level) ==
    IF elem.text = <<>> /\ elem.kids = <<>>
    THEN <<"<", elem.tag>> \o AttribTokens(elem.attrib) \o <<"/>">>
    ELSE IF elem.kids = <<>>
    THEN <<"<", elem.tag>> \o AttribTokens(elem.attrib) \o <<">">>
         \o escape_cdata(elem.text) \o <<"</", elem.tag, ">">>
    ELSE IF elem.text # <<>>
    THEN <<"<", elem.tag>> \o AttribTokens(elem.attrib) \o <<">">>
         \o escape_cdata(elem.text) \o ET_tostring_all(elem.kids)
         \o <<"</", elem.tag, ">">>
    ELSE <<"<", elem.tag>> \o AttribTokens(elem.attrib) \o <<">", "\n">>
         \o PrettyAll(elem.kids, level + 1)
         \o Indent(level) \o <<"</", elem.tag, ">">>

PrettyAll(kids, level) ==
    IF kids = <<>> THEN <<>>
    ELSE Indent(level) \o PrettyElement(kids[1], level) \o <<"\n">>
         \o PrettyAll(Tail(kids), level)

\* lxml.etree.tostring(root, pretty_print=True, encoding='unicode')
etree_tostring_pretty(root) == PrettyElement(root, 0) \o <<"\n">>

XmlDeclaration == <<"<?xml version=\"1.0\" encoding=\"UTF-8\"?>", "\n">>

-----------------------------------------------------------------------------
(* ccmm_handler.py: CCMMHandler *)

\* the publication year of a new Dataset
DefaultYear == 2024

\* the repeated top-level groups, by the tag of their elements
Groups == {"identifier", "has_description", "alternate_title", "subject",
           "qualified_relation", "time_reference", "location", "distribution",
           "is_described_by", "other_language"}

\* the record of a facade call: outcome is "ok" when the call returned and
\* the name of the exception when it raised; ret is the value returned
Call(op, args, outcome, ret) ==
    [op |-> op, args |-> args, outcome |-> outcome, ret |-> ret]

NoValue == <<>>

DefaultTerms ==
    [access_rights |-> <<"http://purl.org/coar/access_right/c_abf2">>,
     license_name |-> <<"http://creativecommons.org/licenses/by/4.0/">>,
     iri |-> None,
     description |-> Some(<<"Default terms of use">>)]

\* a variant whose Dataset starts with a placeholder title
_init_empty_dataset_titled ==
    [title |-> <<"Untitled">>,
     publication_year |-> DefaultYear,
     identifiers |-> <<>>,
     metadata_records |-> <<>>,
     qualified_relations |-> <<>>,
     time_references |-> <<>>,
     subjects |-> <<>>,
     terms_of_use |-> DefaultTerms,
     iri |-> None,
     version |-> None,
     descriptions |-> <<>>,
     alternate_titles |-> <<>>,
     locations |-> <<>>,
     distributions |-> <<>>,
     primary_language |-> None,
     other_languages |-> <<>>]

\* CCMMHandler._init_empty_dataset
_init_empty_dataset ==
    [title |-> <<>>,
     publication_year |-> DefaultYear,
     identifiers |-> <<>>,
     metadata_records |-> <<>>,
     qualified_relations |-> <<>>,
     time_references |-> <<>>,
     subjects |-> <<>>,
     terms_of_use |-> DefaultTerms,
     iri |-> None,
     version |-> None,
     descriptions |-> <<>>,
     alternate_titles |-> <<>>,
     locations |-> <<>>,
     distributions |-> <<>>,
     primary_language |-> None,
     other_languages |-> <<>>]

NoFile == [exists |-> FALSE, content |-> <<>>]

\* os.path.dirname(__file__) of the schemas package, as path components
PackageDir == <<"pyccmm", "schemas">>

\* os.path.join
os_path_join(head, tail) == head \o tail

get_schema_path(schema_name) ==
    LET schemas_dir == os_path_join(PackageDir, <<"CCMM">>)
    IN os_path_join(schemas_dir, <<schema_name, "schema.xsd">>)

get_ccmm_root == os_path_join(PackageDir, <<"CCMM">>)

\* a schema directory of the caller
CustomRoot == <<"custom", "CCMM">>

\* CCMMHandler.__init__ (and the construction of a CCMMMetadataHandler)
__init__(path) ==
    /\ ccmm_path = IF path = None THEN get_ccmm_root ELSE path[1]
    /\ dataset = _init_empty_dataset
    /\ lists = <<>>
    /\ added = [g \in Groups |-> <<>>]
    /\ last = Call("__init__", <<>>, "ok", NoValue)
    /\ file = NoFile
    /\ metadata = Node("dataset", <<>>, <<>>, <<>>)
    /\ required_fields = [title |-> FALSE, publication_year |-> FALSE,
                          identifier |-> FALSE]
    /\ succeeded = {}

\* a handler constructed without a path
Init == __init__(None)

\* a handler constructed without a path or with the caller's directory
InitSchemaRoot == \E path \in {None, Some(CustomRoot)} : __init__(path)

\* a mutator call that raised: nothing but the call record changes
Rejected(op, args) ==
    /\ last' = Call(op, args, "ValueError", NoValue)
    /\ UNCHANGED <<dataset, lists, added, file, mh_vars, ccmm_path>>

\* a mutator call that stored a scalar field
Stored(op, args, ds) ==
    /\ dataset' = ds
    /\ last' = Call(op, args, "ok", NoValue)
    /\ UNCHANGED <<lists, added, file, mh_vars, ccmm_path>>

\* a mutator call that touched a repeated group
Appended(op, args, group, ds) ==
    /\ dataset' = ds
    /\ added' = [added EXCEPT ![group] = Append(@, args)]
    /\ last' = Call(op, args, "ok", NoValue)
    /\ UNCHANGED <<lists, file, mh_vars, ccmm_path>>

\* a variant that stores the title without the check
set_title_unchecked(title) ==
    Stored("set_title", <<title>>, [dataset EXCEPT !.title = title])

set_title(title) ==
    IF _validate_non_empty_string(title)
    THEN Stored("set_title", <<title>>, [dataset EXCEPT !.title = title])
    ELSE Rejected("set_title", <<title>>)

\* current_year is the reading of datetime.now().year during the call
set_publication_year(year, current_year) ==
    IF _validate_year(year, current_year)
    THEN Stored("set_publication_year", <<year, current_year>>,
                [dataset EXCEPT !.publication_year = year])
    ELSE Rejected("set_publication_year", <<year, current_year>>)

set_version(version) ==
    IF _validate_non_empty_string(version)
    THEN Stored("set_version", <<version>>,
                [dataset EXCEPT !.version = Some(version)])
    ELSE Rejected("set_version", <<version>>)

set_iri(iri) ==
    IF _validate_uri(iri)
    THEN Stored("set_iri", <<iri>>, [dataset EXCEPT !.iri = Some(iri)])
    ELSE Rejected("set_iri", <<iri>>)

set_primary_language(language) ==
    Stored("set_primary_language", <<language>>,
           [dataset EXCEPT !.primary_language = Some(language)])

\* a variant that appends without the membership test
add_other_language_always(language) ==
    Appended("add_other_language", <<language>>, "other_language",
             [dataset EXCEPT !.other_languages = Append(@, language)])

\* a variant that replaces the list of other languages by the new one
add_other_language_replacing(language) ==
    Appended("add_other_language", <<language>>, "other_language",
             [dataset EXCEPT !.other_languages = <<language>>])

\* list membership test of add_other_language
Contains(seq, x) == \E i \in 1..Len(seq) : seq[i] = x

add_other_language(language) ==
    Appended("add_other_language", <<language>>, "other_language",
             IF ~Contains(dataset.other_languages, language)
             THEN [dataset EXCEPT !.other_languages = Append(@, language)]
             ELSE dataset)

\* "if iri: self._validate_uri(iri)"
OptionalUriOk(iri) == Truthy(iri) => _validate_uri(iri[1])

set_terms_of_use(access_rights, license_name, description, iri) ==
    LET args == <<access_rights, license_name, description, iri>>
    IN IF /\ _validate_non_empty_string(access_rights)
          /\ _validate_non_empty_string(license_name)
          /\ OptionalUriOk(iri)
       THEN Stored("set_terms_of_use", args,
                   [dataset EXCEPT !.terms_of_use =
                       [access_rights |-> access_rights,
                        license_name |-> license_name,
                        iri |-> iri,
                        description |-> description]])
       ELSE Rejected("set_terms_of_use", args)

NewIdentifier(value, scheme, iri) ==
    [value |-> value, scheme |-> scheme, iri |-> iri]

\* a variant that puts the new identifier in front of the list
add_identifier_prepend(value, scheme, iri) ==
    LET args == <<value, scheme, iri>>
    IN IF _validate_non_empty_string(value) /\ OptionalUriOk(iri)
       THEN Appended("add_identifier", args, "identifier",
                     [dataset EXCEPT !.identifiers =
                         <<NewIdentifier(value, scheme, iri)>> \o @])
       ELSE Rejected("add_identifier", args)

\* a variant that appends the identifier before it checks the iri
add_identifier_append_first(value, scheme, iri) ==
    LET args == <<value, scheme, iri>>
        ds == [dataset EXCEPT !.identifiers =
                  Append(@, NewIdentifier(value, scheme, iri))]
    IN IF ~_validate_non_empty_string(value)
       THEN Rejected("add_identifier", args)
       ELSE IF ~OptionalUriOk(iri)
       THEN /\ dataset' = ds
            /\ last' = Call("add_identifier", args, "ValueError", NoValue)
            /\ UNCHANGED <<lists, added, file, mh_vars, ccmm_path>>
       ELSE Appended("add_identifier", args, "identifier", ds)

add_identifier(value, scheme, iri) ==
    LET args == <<value, scheme, iri>>
    IN IF _validate_non_empty_string(value) /\ OptionalUriOk(iri)
       THEN Appended("add_identifier", args, "identifier",
                     [dataset EXCEPT !.identifiers =
                         Append(@, NewIdentifier(value, scheme, iri))])
       ELSE Rejected("add_identifier", args)

NewDescription(description_text, description_type, iri) ==
    [description_text |-> description_text,
     description_type |-> description_type,
     iri |-> iri]

add_description(description_text, description_type, iri) ==
    LET args == <<description_text, description_type, iri>>
    IN IF _validate_non_empty_string(description_text) /\ OptionalUriOk(iri)
       THEN Appended("add_description", args, "has_description",
                     [dataset EXCEPT !.descriptions =
                         Append(@, NewDescription(description_text,
                                                  description_type, iri))])
       ELSE Rejected("add_description", args)

MultiLanguageText(text, language) == [text |-> text, language |-> language]

NewAlternateTitle(title, language, alternate_title_type, iri) ==
    [titles |-> <<MultiLanguageText(title, language)>>,
     alternate_title_type |-> alternate_title_type,
     iri |-> iri]

add_alternate_title(title, language, alternate_title_type, iri) ==
    LET args == <<title, language, alternate_title_type, iri>>
    IN IF _validate_non_empty_string(title) /\ OptionalUriOk(iri)
       THEN Appended("add_alternate_title", args, "alternate_title",
                     [dataset EXCEPT !.alternate_titles =
                         Append(@, NewAlternateTitle(title, language,
                                                     alternate_title_type, iri))])
       ELSE Rejected("add_alternate_title", args)

NewSubject(title, language, classification_code, subject_scheme, definition, iri) ==
    [titles |-> <<MultiLanguageText(title, language)>>,
     classification_code |-> classification_code,
     subject_scheme |-> subject_scheme,
     definitions |-> IF Truthy(definition)
                     THEN <<MultiLanguageText(definition[1], language)>>
                     ELSE <<>>,
     iri |-> iri]

add_subject(title, language, classification_code, subject_scheme, definition, iri) ==
    LET args == <<title, language, classification_code, subject_scheme,
                  definition, iri>>
    IN IF _validate_non_empty_string(title) /\ OptionalUriOk(iri)
       THEN Appended("add_subject", args, "subject",
                     [dataset EXCEPT !.subjects =
                         Append(@, NewSubject(title, language, classification_code,
                                              subject_scheme, definition, iri))])
       ELSE Rejected("add_subject", args)

Agent(name, agent_type, identifier, email, affiliation) ==
    [name |-> name, agent_type |-> agent_type, identifier |-> identifier,
     email |-> email, affiliation |-> affiliation, iri |-> None]

ResourceToAgentRelationship(agent, role, iri) ==
    [agent |-> agent, role |-> role, iri |-> iri]

add_agent_relationship(agent_name, role, agent_type, agent_email, iri) ==
    LET args == <<agent_name, role, agent_type, agent_email, iri>>
    IN IF /\ _validate_non_empty_string(agent_name)
          /\ (Truthy(agent_email) => _validate_email(agent_email[1]))
          /\ OptionalUriOk(iri)
       THEN Appended("add_agent_relationship", args, "qualified_relation",
                     [dataset EXCEPT !.qualified_relations =
                         Append(@, ResourceToAgentRelationship(
                                       Agent(agent_name, agent_type, None,
                                             agent_email, None),
                                       role, iri))])
       ELSE Rejected("add_agent_relationship", args)

NewTimeReference(time_value, time_type, iri) ==
    [time_value |-> time_value, time_type |-> time_type, iri |-> iri]

add_time_reference(time_value, time_type, iri) ==
    LET args == <<time_value, time_type, iri>>
    IN IF _validate_non_empty_string(time_value) /\ OptionalUriOk(iri)
       THEN Appended("add_time_reference", args, "time_reference",
                     [dataset EXCEPT !.time_references =
                         Append(@, NewTimeReference(time_value, time_type, iri))])
       ELSE Rejected("add_time_reference", args)

NewLocation(location_value, location_type, iri) ==
    [location_value |-> location_value, location_type |-> location_type,
     iri |-> iri]

add_location(location_value, location_type, iri) ==
    LET args == <<location_value, location_type, iri>>
    IN IF _validate_non_empty_string(location_value) /\ OptionalUriOk(iri)
       THEN Appended("add_location", args, "location",
                     [dataset EXCEPT !.locations =
                         Append(@, NewLocation(location_value, location_type, iri))])
       ELSE Rejected("add_location", args)

NewDistribution(access_url, format_type, title, description, iri) ==
    [access_url |-> access_url, format_type |-> format_type, title |-> title,
     description |-> description, iri |-> iri]

add_distribution(access_url, format_type, title, iri) ==
    LET args == <<access_url, format_type, title, iri>>
    IN IF _validate_uri(access_url) /\ OptionalUriOk(iri)
       THEN Appended("add_distribution", args, "distribution",
                     [dataset EXCEPT !.distributions =
                         Append(@, NewDistribution(access_url, format_type,
                                                   title, None, iri))])
       ELSE Rejected("add_distribution", args)

NewMetadataRecord(ref, date_created, date_updated, languages, iri) ==
    [qualified_relations |-> ref, date_created |-> date_created,
     date_updated |-> date_updated, languages |-> languages, iri |-> iri]

EmptyRelationsMessage ==
    <<"Metadata record must have at least one ", "qualified_relation">>

\* a list passed as an argument: the list object and what it holds at the call
ListArg(ref, content) == [ref |-> ref, content |-> content]

\* a variant of add_metadata_record without the check of the list
add_metadata_record_unchecked(relations, date_created, languages, iri) ==
    LET ref == CallerList(Len(lists) + 1)
        args == <<ListArg(ref, relations), date_created, languages, iri>>
    IN IF ~OptionalUriOk(iri)
       THEN Rejected("add_metadata_record", args)
       ELSE /\ lists' = Append(lists, relations)
            /\ dataset' = [dataset EXCEPT !.metadata_records =
                              Append(@, NewMetadataRecord(ref, date_created, <<>>,
                                                          languages, iri))]
            /\ added' = [added EXCEPT !["is_described_by"] =
                            Append(@, <<ref, date_created, languages, iri>>)]
            /\ last' = Call("add_metadata_record", args, "ok", NoValue)
            /\ UNCHANGED <<file, mh_vars, ccmm_path>>

\* add_metadata_record(relations, ...) where the first argument is a list
\* the caller has just built: the record keeps that very list object
add_metadata_record_new_list(relations, date_created, languages, iri) ==
    LET ref == CallerList(Len(lists) + 1)
        args == <<ListArg(ref, relations), date_created, languages, iri>>
    IN IF relations = <<>>
       THEN /\ last' = Call("add_metadata_record", args, "ValueError",
                            EmptyRelationsMessage)
            /\ UNCHANGED <<dataset, lists, added, file, mh_vars, ccmm_path>>
       ELSE IF ~OptionalUriOk(iri)
       THEN Rejected("add_metadata_record", args)
       ELSE /\ lists' = Append(lists, relations)
            /\ dataset' = [dataset EXCEPT !.metadata_records =
                              Append(@, NewMetadataRecord(ref, date_created, <<>>,
                                                          languages, iri))]
            /\ added' = [added EXCEPT !["is_described_by"] =
                            Append(@, <<ref, date_created, languages, iri>>)]
            /\ last' = Call("add_metadata_record", args, "ok", NoValue)
            /\ UNCHANGED <<file, mh_vars, ccmm_path>>

\* a variant that takes the Dataset's own list without the check
add_metadata_record_own_list_unchecked ==
    LET args == <<ListArg(DatasetList, dataset.qualified_relations), None,
                  <<>>, None>>
    IN /\ dataset' = [dataset EXCEPT !.metadata_records =
                         Append(@, NewMetadataRecord(DatasetList, None, <<>>,
                                                     <<>>, None))]
       /\ added' = [added EXCEPT !["is_described_by"] =
                       Append(@, <<DatasetList, None, <<>>, None>>)]
       /\ last' = Call("add_metadata_record", args, "ok", NoValue)
       /\ UNCHANGED <<lists, file, mh_vars, ccmm_path>>

\* add_metadata_record(handler.get_agent_relationships()): the first
\* argument is the Dataset's own qualified_relations list
add_metadata_record_own_list ==
    LET args == <<ListArg(DatasetList, dataset.qualified_relations), None,
                  <<>>, None>>
    IN IF dataset.qualified_relations = <<>>
       THEN /\ last' = Call("add_metadata_record", args, "ValueError",
                            EmptyRelationsMessage)
            /\ UNCHANGED <<dataset, lists, added, file, mh_vars, ccmm_path>>
       ELSE /\ dataset' = [dataset EXCEPT !.metadata_records =
                              Append(@, NewMetadataRecord(DatasetList, None, <<>>,
                                                          <<>>, None))]
            /\ added' = [added EXCEPT !["is_described_by"] =
                            Append(@, <<DatasetList, None, <<>>, None>>)]
            /\ last' = Call("add_metadata_record", args, "ok", NoValue)
            /\ UNCHANGED <<lists, file, mh_vars, ccmm_path>>

-----------------------------------------------------------------------------
(* The schema dataset/schema.xsd, as far as the program documents it: the  *)
(* sequence of the top-level elements with their cardinalities, and the    *)
(* required children of a distribution and of a metadata record.           *)

MinQualifiedRelations == 2

XsdSequence ==
    << [tag |-> "iri",                min |-> 0, many |-> FALSE],
       [tag |-> "publication_year",   min |-> 1, many |-> FALSE],
       [tag |-> "version",            min |-> 0, many |-> FALSE],
       [tag |-> "title",              min |-> 1, many |-> FALSE],
       [tag |-> "has_description",    min |-> 0, many |-> TRUE],
       [tag |-> "alternate_title",    min |-> 0, many |-> TRUE],
       [tag |-> "is_described_by",    min |-> 1, many |-> TRUE],
       [tag |-> "identifier",         min |-> 1, many |-> TRUE],
       [tag |-> "location",           min |-> 0, many |-> TRUE],
       [tag |-> "provenance",         min |-> 0, many |-> TRUE],
       [tag |-> "qualified_relation", min |-> MinQualifiedRelations,
                                      many |-> TRUE],
       [tag |-> "time_reference",     min |-> 1, many |-> TRUE],
       [tag |-> "subject",            min |-> 1, many |-> TRUE],
       [tag |-> "validation_result",  min |-> 0, many |-> TRUE],
       [tag |-> "distribution",       min |-> 0, many |-> TRUE],
       [tag |-> "funding_reference",  min |-> 0, many |-> TRUE],
       [tag |-> "terms_of_use",       min |-> 1, many |-> FALSE],
       [tag |-> "related_resource",   min |-> 0, many |-> TRUE],
       [tag |-> "resource_type",      min |-> 0, many |-> FALSE],
       [tag |-> "other_language",     min |-> 0, many |-> TRUE],
       [tag |-> "primary_language",   min |-> 0, many |-> FALSE] >>

\* the position of a tag in the canonical order, 0 for an unknown tag
Slot(tag) ==
    IF \E i \in 1..Len(XsdSequence) : XsdSequence[i].tag = tag
    THEN CHOOSE i \in 1..Len(XsdSequence) : XsdSequence[i].tag = tag
    ELSE 0

\* the children of an element that carry the tag, in document order
KidsTagged(elem, tag) == SelectSeq(elem.kids, LAMBDA k : k.tag = tag)

\* the order of the top-level children is that of the schema's sequence
XsdOrderOk(doc) ==
    /\ \A i \in 1..Len(doc.kids) : Slot(doc.kids[i].tag) # 0
    /\ \A i, j \in 1..Len(doc.kids) :
          i < j => Slot(doc.kids[i].tag) <= Slot(doc.kids[j].tag)

XsdCardinalityOk(doc) ==
    \A i \in 1..Len(XsdSequence) :
        LET n == Len(KidsTagged(doc, XsdSequence[i].tag))
        IN XsdSequence[i].min <= n /\ (XsdSequence[i].many \/ n <= 1)

\* a downloadable file needs its format; a metadata record needs a relation
XsdNestedOk(doc) ==
    /\ \A i \in 1..Len(doc.kids) :
          doc.kids[i].tag = "distribution" =>
              \A j \in 1..Len(doc.kids[i].kids) :
                  KidsTagged(doc.kids[i].kids[j], "format") # <<>>
    /\ \A i \in 1..Len(doc.kids) :
          doc.kids[i].tag = "is_described_by" =>
              KidsTagged(doc.kids[i], "qualified_relation") # <<>>

\* schema.validate(xml_doc)
XsdValidates(doc) ==
    /\ doc.tag = "dataset"
    /\ XsdOrderOk(doc)
    /\ XsdCardinalityOk(doc)
    /\ XsdNestedOk(doc)

-----------------------------------------------------------------------------
(* Validation and export *)

\* the result of a block of Python: a value returned or an exception raised
Return(v) == [raised |-> FALSE, exc |-> "", value |-> v]
Raise(exc) == [raised |-> TRUE, exc |-> exc, value |-> FALSE]

\* a variant without the except clause: the exception goes on to the caller
ExceptReturnFalse_missing(attempt) == attempt

\* "try: ... except Exception: return False"
ExceptReturnFalse(attempt) ==
    IF attempt.raised THEN Return(FALSE) ELSE attempt

\* the body of _validate_against_xsd; schema_readable tells whether
\* open(xsd_path) succeeds, xsd_path being get_schema_path("dataset")
XsdAttempt(ds, heap, schema_readable) ==
    LET xml_elem == Dataset_to_xml_element(ds, heap)
    IN IF Raised(xml_elem) THEN Raise("AttributeError")
       ELSE IF ~schema_readable THEN Raise("FileNotFoundError")
       ELSE Return(XsdValidates(etree_fromstring(ET_tostring(xml_elem))))

_validate_against_xsd(ds, heap, schema_readable) ==
    ExceptReturnFalse(XsdAttempt(ds, heap, schema_readable))

\* the six checks that precede the schema validation in is_valid
StructuralOk(ds) ==
    /\ strip(ds.title) # <<>>
    /\ ds.identifiers # <<>>
    /\ ds.metadata_records # <<>>
    /\ ds.qualified_relations # <<>>
    /\ ds.time_references # <<>>
    /\ ds.subjects # <<>>

\* a variant of the body of is_valid that skips the schema validation
IsValidAttempt_structural_only(ds, heap, schema_readable) ==
    IF ~StructuralOk(ds) THEN Return(FALSE) ELSE Return(TRUE)

\* the body of is_valid
IsValidAttempt(ds, heap, schema_readable) ==
    IF ~StructuralOk(ds) THEN Return(FALSE)
    ELSE _validate_against_xsd(ds, heap, schema_readable)

\* CCMMHandler.is_valid as a function of the state and of the file system
IsValid(ds, heap, schema_readable) ==
    ExceptReturnFalse(IsValidAttempt(ds, heap, schema_readable))

\* the outcome name of a result
Outcome(r) == IF r.raised THEN r.exc ELSE "ok"

is_valid(schema_readable) ==
    LET r == IsValid(dataset, lists, schema_readable)
        xsd_path == get_schema_path("dataset")
    IN /\ last' = Call("is_valid", <<schema_readable, xsd_path>>, Outcome(r),
                       r.value)
       /\ UNCHANGED <<dataset, lists, added, file, mh_vars, ccmm_path>>

\* the text to_xml_string returns, or the exception it raises
ToXmlString(ds, heap, pretty_print) ==
    LET xml_elem == Dataset_to_xml_element(ds, heap)
    IN IF Raised(xml_elem) THEN [raised |-> TRUE, exc |-> "AttributeError",
                                 value |-> <<>>]
       ELSE LET xml_string == ET_tostring(xml_elem)
            IN [raised |-> FALSE, exc |-> "",
                value |-> IF pretty_print
                          THEN etree_tostring_pretty(etree_fromstring(xml_string))
                          ELSE xml_string]

\* a variant that empties the list of identifiers it has rendered
to_xml_string_consuming(pretty_print) ==
    LET r == ToXmlString(dataset, lists, pretty_print)
    IN /\ last' = Call("to_xml_string", <<pretty_print>>, Outcome(r), r.value)
       /\ dataset' = [dataset EXCEPT !.identifiers = <<>>]
       /\ UNCHANGED <<lists, added, file, mh_vars, ccmm_path>>

to_xml_string(pretty_print) ==
    LET r == ToXmlString(dataset, lists, pretty_print)
    IN /\ last' = Call("to_xml_string", <<pretty_print>>, Outcome(r), r.value)
       /\ UNCHANGED <<dataset, lists, added, file, mh_vars, ccmm_path>>

\* The file after save_to_file, where io tells how far the file system lets
\* the writing go: "open" fails in open(), "declaration" in the first
\* write, "document" in the second write, "none" nowhere.
IoFailures == {"none", "open", "declaration", "document"}

Written(content) == [exists |-> TRUE, content |-> content]

save_to_file(validate, schema_readable, io) ==
    LET args == <<validate, schema_readable, io>>
        xml_elem == Dataset_to_xml_element(dataset, lists)
        root == etree_fromstring(ET_tostring(xml_elem))
    IN /\ UNCHANGED <<dataset, lists, added, mh_vars, ccmm_path>>
       /\ IF validate /\ ~IsValid(dataset, lists, schema_readable).value
          THEN /\ last' = Call("save_to_file", args, "ValueError", NoValue)
               /\ UNCHANGED file
          ELSE IF Raised(xml_elem)
          THEN /\ last' = Call("save_to_file", args, "AttributeError", NoValue)
               /\ UNCHANGED file
          ELSE IF io = "open"
          THEN /\ last' = Call("save_to_file", args, "OSError", NoValue)
               /\ UNCHANGED file
          ELSE IF io = "declaration"
          THEN /\ last' = Call("save_to_file", args, "OSError", NoValue)
               /\ file' = Written(<<>>)
          ELSE IF io = "document"
          THEN /\ last' = Call("save_to_file", args, "OSError", NoValue)
               /\ file' = Written(XmlDeclaration)
          ELSE /\ last' = Call("save_to_file", args, "ok", NoValue)
               /\ file' = Written(XmlDeclaration \o etree_tostring_pretty(root))

-----------------------------------------------------------------------------
(* The calls explored *)

TitleA == <<"T", "1">>
TitleB == <<"T", "2">>
Blank == <<" ">>
GoodUri == <<"h", "t", "t", "p", ":", "/", "/", "e", ".", "c", "z", "/", "d">>
BadUri == <<"b", "a", "d">>
GoodEmail == <<"r", "@", "e", ".", "c", "z">>
BadEmail == <<"r", "e">>
DateText == <<"2", "0", "2", "4", "-", "0", "1", "-", "0", "1">>

\* the clock readings
Clock == DefaultYear..(DefaultYear + ClockSpan)

Curator ==
    ResourceToAgentRelationship(
        Agent(<<"C">>, Member("person"), None, None, None),
        Member("curator"), None)

\* the number of scalar fields that differ from a new Dataset
ScalarsSet(ds) ==
    Cardinality({f \in {"title", "publication_year", "version", "iri",
                        "primary_language", "terms_of_use"} :
                    ds[f] # _init_empty_dataset[f]})

RECURSIVE SumLen(_, _)
SumLen(f, S) ==
    IF S = {} THEN 0
    ELSE LET g == CHOOSE x \in S : TRUE
         IN Len(f[g]) + SumLen(f, S \ {g})

\* every operation of the facade is offered until MaxCalls mutator calls
\* have left their mark
CanCall == SumLen(added, Groups) + ScalarsSet(dataset) < MaxCalls

Next ==
    \/ \E t \in {TitleA, TitleB, <<>>, Blank} : CanCall /\ set_title(t)
    \/ \E now \in Clock : \E y \in {999, 1000, now + 10, now + 11} :
          CanCall /\ set_publication_year(y, now)
    \/ \E v \in {<<"1">>, <<>>} : CanCall /\ set_version(v)
    \/ \E i \in {GoodUri, BadUri, <<>>} : CanCall /\ set_iri(i)
    \/ \E l \in {Member("cs"), RawStr("xx")} :
          CanCall /\ set_primary_language(l)
    \/ \E l \in {Member("en"), Member("de")} :
          CanCall /\ add_other_language(l)
    \/ \E a \in {<<"o">>, Blank} : \E i \in {None, Some(BadUri)} :
          CanCall /\ set_terms_of_use(a, <<"m">>, None, i)
    \/ \E c \in {<<<<"1", "0">>, Member("DOI"), None>>,
                 <<<<"a">>, Member("ARK"), Some(GoodUri)>>,
                 <<<<"1", "0">>, RawStr("DOI"), None>>,
                 <<<<>>, Member("DOI"), None>>,
                 <<<<"1", "0">>, Member("DOI"), Some(BadUri)>>} :
          CanCall /\ add_identifier(c[1], c[2], c[3])
    \/ \E c \in {<<<<"d">>, None, None>>,
                 <<<<"e">>, Some(<<"t">>), None>>,
                 <<Blank, None, None>>} :
          CanCall /\ add_description(c[1], c[2], c[3])
    \/ \E c \in {<<<<"a">>, Member("en"), None, None>>,
                 <<<<"b">>, Member("it"), Some(<<"t">>), None>>,
                 <<<<>>, Member("en"), None, None>>} :
          CanCall /\ add_alternate_title(c[1], c[2], c[3], c[4])
    \/ \E c \in {<<<<"s">>, Member("cs"), None, Some(Member("keyword")), None, None>>,
                 <<<<"p">>, Member("en"), Some(<<"0", "1">>), None, Some(<<"d">>), None>>,
                 <<Blank, Member("cs"), None, None, None, None>>} :
          CanCall /\ add_subject(c[1], c[2], c[3], c[4], c[5], c[6])
    \/ \E c \in {<<<<"r">>, Member("creator"), Member("person"), None, None>>,
                 <<<<"o">>, Member("publisher"), Member("organization"),
                   Some(GoodEmail), None>>,
                 <<<<"r">>, Member("creator"), Member("person"),
                   Some(BadEmail), None>>,
                 <<<<>>, Member("creator"), Member("person"), None, None>>} :
          CanCall /\ add_agent_relationship(c[1], c[2], c[3], c[4], c[5])
    \/ \E c \in {<<DateText, Member("created"), None>>,
                 <<<<"x">>, Member("updated"), None>>,
                 <<<<>>, Member("created"), None>>} :
          CanCall /\ add_time_reference(c[1], c[2], c[3])
    \/ \E c \in {<<<<"p">>, Member("place"), None>>,
                 <<<<"c">>, Member("country"), None>>,
                 <<Blank, Member("place"), None>>} :
          CanCall /\ add_location(c[1], c[2], c[3])
    \/ \E c \in {<<GoodUri, Some(Member("text/csv")), Some(<<"c">>), None>>,
                 <<GoodUri, None, None, None>>,
                 <<BadUri, None, None, None>>} :
          CanCall /\ add_distribution(c[1], c[2], c[3], c[4])
    \/ \E r \in {<<Curator>>, <<>>} : \E i \in {None, Some(BadUri)} :
          CanCall /\ add_metadata_record_new_list(r, None, <<>>, i)
    \/ CanCall /\ add_metadata_record_own_list
    \/ \E readable \in BOOLEAN : is_valid(readable)
    \/ \E pretty_print \in BOOLEAN : to_xml_string(pretty_print)

Spec == Init /\ [][Next]_vars

\* the same calls on a handler constructed with or without a path
SpecSchemaRoot == InitSchemaRoot /\ [][Next]_vars

\* the least number of elements of a group the schema asks for
Required(group) ==
    CASE group \in {"identifier", "is_described_by", "time_reference",
                    "subject"} -> 1
      [] group = "qualified_relation" -> MinQualifiedRelations
      [] OTHER -> 0

RECURSIVE SumExcess(_, _)
SumExcess(f, S) ==
    IF S = {} THEN 0
    ELSE LET g == CHOOSE x \in S : TRUE
             over == Len(f[g]) - Required(g)
         IN (IF over > 0 THEN over ELSE 0) + SumExcess(f, S \ {g})

\* a group is filled up to the schema's minimum, and MaxExtra elements
\* more are added overall
CanAdd(group) ==
    \/ Len(added[group]) < Required(group)
    \/ SumExcess(added, Groups) < MaxExtra

\* The handler is followed up to its first export that leaves a file; after
\* it the validity checks and further exports are explored, no mutator.
Building == ~file.exists

\* the readings of the file system a save_to_file call depends on: the
\* schema file is read only when validate is set
\* and the file is written only when that validation has passed
SaveCalls ==
    {c \in BOOLEAN \X BOOLEAN \X IoFailures :
        /\ ~c[1] => c[2]
        /\ ~c[2] => c[3] = "none"}

\* the operations on the required fields, validation and saving
NextRequired ==
    \/ \E t \in {TitleA, <<>>} : Building /\ set_title(t)
    \/ \E s \in {Member("DOI"), RawStr("DOI")} :
          Building /\ CanAdd("identifier")
          /\ add_identifier(<<"1", "0">>, s, None)
    \/ Building /\ CanAdd("is_described_by")
          /\ add_metadata_record_new_list(<<Curator>>, None, <<>>, None)
    \/ Building /\ CanAdd("is_described_by") /\ add_metadata_record_own_list
    \/ Building /\ CanAdd("qualified_relation")
          /\ add_agent_relationship(<<"r">>, Member("creator"),
                                    Member("person"), None, None)
    \/ Building /\ CanAdd("time_reference")
          /\ add_time_reference(DateText, Member("created"), None)
    \/ Building /\ CanAdd("subject")
          /\ add_subject(<<"s">>, Member("cs"), None, Some(Member("keyword")),
                         None, None)
    \/ \E f \in {Some(Member("text/csv")), None} :
          Building /\ CanAdd("distribution")
          /\ add_distribution(GoodUri, f, None, None)
    \/ \E readable \in BOOLEAN : is_valid(readable)
    \/ \E c \in SaveCalls : save_to_file(c[1], c[2], c[3])

SpecRequired == Init /\ [][NextRequired]_vars
-----------------------------------------------------------------------------
(* Properties of the facade *)

\* the document Dataset.to_xml_element renders from the current state
Doc == Dataset_to_xml_element(dataset, lists)

\* the order of the top-level children the specification calls canonical
CanonicalOrder ==
    <<"iri", "publication_year", "version", "title", "has_description",
      "alternate_title", "is_described_by", "identifier", "location",
      "qualified_relation", "time_reference", "subject", "distribution",
      "terms_of_use", "other_language", "primary_language">>

Rank(tag) ==
    IF \E i \in 1..Len(CanonicalOrder) : CanonicalOrder[i] = tag
    THEN CHOOSE i \in 1..Len(CanonicalOrder) : CanonicalOrder[i] = tag
    ELSE 0

\* C1: whatever the order of the set_* and add_* calls that populated the
\* dataset, the top-level children of the document Dataset.to_xml_element
\* renders are all of the canonical groups and follow the canonical order
\* (iri, publication_year, version, title, has_description, alternate_title,
\* is_described_by, identifier, location, qualified_relation, time_reference,
\* subject, distribution, terms_of_use, other_language, primary_language).
C1_CanonicalOrder ==
    LET doc == Doc
        rank == [i \in 1..Len(doc.kids) |-> Rank(doc.kids[i].tag)]
    IN ~Raised(doc) =>
           /\ \A i \in 1..Len(rank) : rank[i] # 0
           /\ \A i, j \in 1..Len(rank) : i < j => rank[i] <= rank[j]

\* an identifier has been added after a distribution, against the canonical
\* order, and the document renders
C1_Witness ==
    /\ last.op = "add_identifier"
    /\ last.outcome = "ok"
    /\ dataset.distributions # <<>>
    /\ ~Raised(Doc)

\* the node a successful add_* call with arguments a puts into its group
ExpectedNode(group, a) ==
    CASE group = "identifier" ->
            Identifier_to_xml_element(NewIdentifier(a[1], a[2], a[3]))
      [] group = "has_description" ->
            Description_to_xml_element(NewDescription(a[1], a[2], a[3]))
      [] group = "alternate_title" ->
            AlternateTitle_to_xml_element(
                NewAlternateTitle(a[1], a[2], a[3], a[4]))
      [] group = "subject" ->
            Subject_to_xml_element(
                NewSubject(a[1], a[2], a[3], a[4], a[5], a[6]))
      [] group = "qualified_relation" ->
            ResourceToAgentRelationship_to_xml_element(
                ResourceToAgentRelationship(
                    Agent(a[1], a[3], None, a[4], None), a[2], a[5]))
      [] group = "time_reference" ->
            TimeReference_to_xml_element(NewTimeReference(a[1], a[2], a[3]))
      [] group = "location" ->
            Location_to_xml_element(NewLocation(a[1], a[2], a[3]))
      [] group = "distribution" ->
            Distribution_to_xml_element(
                NewDistribution(a[1], a[2], a[3], None, a[4]))
      [] group = "is_described_by" ->
            MetadataRecord_to_xml_element(
                NewMetadataRecord(a[1], a[2], <<>>, a[3], a[4]), dataset, lists)
      [] OTHER -> IriWrapped("other_language", a[1])

\* the group's nodes in the document are those of the calls, in call order
NodesFollowCalls(doc, group, calls) ==
    KidsTagged(doc, group) =
        [i \in 1..Len(calls) |-> ExpectedNode(group, calls[i])]

\* a sequence without the repetitions of an earlier element
RECURSIVE FirstOccurrences(_)
FirstOccurrences(s) ==
    IF s = <<>> THEN <<>>
    ELSE LET front == FirstOccurrences(SubSeq(s, 1, Len(s) - 1))
         IN IF \E i \in 1..Len(front) : front[i] = s[Len(s)]
            THEN front
            ELSE Append(front, s[Len(s)])

\* C2 as stated: every repeatable group, other_language included, appears in
\* the rendered document in insertion order with exactly one node per
\* successful add_* call.
C2_OneNodePerCall ==
    LET doc == Doc
    IN ~Raised(doc) => \A g \in Groups : NodesFollowCalls(doc, g, added[g])

\* C2: every repeatable group but other_language appears in the rendered
\* document in insertion order with exactly one node per successful add_*
\* call; other_language has one node per distinct language, in the order of
\* the first call that added it.
C2_OneNodePerDistinctCall ==
    LET doc == Doc
    IN ~Raised(doc) =>
           /\ \A g \in Groups \ {"other_language"} :
                 NodesFollowCalls(doc, g, added[g])
           /\ NodesFollowCalls(doc, "other_language",
                               FirstOccurrences(added["other_language"]))

\* two different identifiers have been added, and the document renders
C2_Witness ==
    /\ Len(added["identifier"]) = 2
    /\ added["identifier"][1] # added["identifier"][2]
    /\ ~Raised(Doc)

\* C3: to_xml_string and is_valid leave every field and collection of the
\* Dataset as it was, and to_xml_string called again with the same
\* pretty_print flag, no mutator call in between, returns (or raises) the
\* same as the call just made.
C3_ReadsArePure ==
    [][/\ last'.op \in {"to_xml_string", "is_valid"} =>
              dataset' = dataset /\ lists' = lists
       /\ last'.op = "to_xml_string" =>
              LET again == ToXmlString(dataset', lists', last'.args[1])
              IN Outcome(again) = last'.outcome /\ again.value = last'.ret]_vars

\* to_xml_string has returned the pretty-printed text of a dataset that
\* holds an identifier
C3_Witness ==
    /\ last.op = "to_xml_string"
    /\ last.outcome = "ok"
    /\ last.args[1]
    /\ dataset.identifiers # <<>>

\* the set_* and add_* operations
Mutators ==
    {"set_title", "set_publication_year", "set_version", "set_iri",
     "set_primary_language", "add_other_language", "set_terms_of_use",
     "add_identifier", "add_description", "add_alternate_title",
     "add_subject", "add_agent_relationship", "add_time_reference",
     "add_location", "add_distribution", "add_metadata_record"}

IsBlank(text) == \A i \in 1..Len(text) : text[i] \in Whitespace

HasToken(text, c) == \E i \in 1..Len(text) : text[i] = c

\* the invalid inputs of a call, those of an IRI or URL apart: a blank
\* required string, a year out of range, an email without "@", an empty
\* list of relations
BadPlainInput(c) ==
    \/ /\ c.op \in {"set_title", "set_version", "add_identifier",
                    "add_description", "add_alternate_title", "add_subject",
                    "add_agent_relationship", "add_time_reference",
                    "add_location", "set_terms_of_use"}
       /\ IsBlank(c.args[1])
    \/ c.op = "set_terms_of_use" /\ IsBlank(c.args[2])
    \/ /\ c.op = "set_publication_year"
       /\ (c.args[1] < 1000 \/ c.args[1] > c.args[2] + 10)
    \/ /\ c.op = "add_agent_relationship"
       /\ c.args[4] # None
       /\ ~HasToken(c.args[4][1], "@")
    \/ c.op = "add_metadata_record" /\ c.args[1].content = <<>>

\* the invalid inputs of a call: those, and a URI without a scheme
BadInput(c) ==
    \/ BadPlainInput(c)
    \/ c.op \in {"set_iri", "add_distribution"} /\ ~HasToken(c.args[1], ":")

\* C4: a set_* or add_* call with an invalid input raises ValueError itself,
\* and a call that raises leaves every field of the Dataset, and every list
\* it refers to, as it was before the call.
C4_FailBeforeWrite ==
    [][last'.op \in Mutators =>
          /\ BadInput(last') => last'.outcome = "ValueError"
          /\ last'.outcome # "ok" => dataset' = dataset /\ lists' = lists]_vars

\* a mutator has been rejected on a dataset that already holds data
C4_Witness ==
    /\ last.op \in Mutators
    /\ last.outcome = "ValueError"
    /\ dataset # _init_empty_dataset

\* the six structural conditions of is_valid, as the specification lists them
TitlePresent(ds) == \E i \in 1..Len(ds.title) : ds.title[i] \notin Whitespace

SixConditions(ds) ==
    /\ TitlePresent(ds)
    /\ Len(ds.identifiers) >= 1
    /\ Len(ds.metadata_records) >= 1
    /\ Len(ds.qualified_relations) >= 1
    /\ Len(ds.time_references) >= 1
    /\ Len(ds.subjects) >= 1

\* the rendered document passes the schema-conformance check
PassesSchemaCheck(schema_readable) ==
    LET doc == Doc
    IN /\ schema_readable
       /\ ~Raised(doc)
       /\ XsdValidates(etree_fromstring(ET_tostring(doc)))

\* C5: is_valid returns true only if the six structural conditions hold
\* (non-blank title, an identifier, a metadata record, an agent relationship,
\* a time reference, a subject) and the rendered document passes the schema
\* check; when any of the six is missing it returns false.
C5_ValidOnlyIfComplete ==
    last.op = "is_valid" =>
        /\ last.ret = TRUE =>
              SixConditions(dataset) /\ PassesSchemaCheck(last.args[1])
        /\ ~SixConditions(dataset) => last.ret = FALSE

\* is_valid has returned true
C5_Witness ==
    /\ last.op = "is_valid"
    /\ last.outcome = "ok"
    /\ last.ret = TRUE

\* C6: is_valid never raises: it returns a boolean, and false when the
\* rendering fails or the schema file cannot be read.
C6_IsValidNeverRaises ==
    last.op = "is_valid" =>
        /\ last.outcome = "ok"
        /\ last.ret \in BOOLEAN
        /\ (Raised(Doc) \/ ~last.args[1]) => last.ret = FALSE

\* is_valid has been called on a dataset that passes the six structural
\* checks and whose rendering raises during the schema stage
C6_Witness ==
    /\ last.op = "is_valid"
    /\ SixConditions(dataset)
    /\ Raised(Doc)

\* a minimum-populated dataset: a title, one identifier, one metadata
\* record with a relation, two agent relationships, one time reference, one
\* subject, terms of use
MinimumPopulated(ds, heap) ==
    /\ TitlePresent(ds)
    /\ Len(ds.identifiers) >= 1
    /\ \E i \in 1..Len(ds.metadata_records) :
          Deref(ds.metadata_records[i].qualified_relations, ds, heap) # <<>>
    /\ Len(ds.qualified_relations) >= 2
    /\ Len(ds.time_references) >= 1
    /\ Len(ds.subjects) >= 1
    /\ ds.terms_of_use.access_rights # <<>>

\* C7 as stated: for a minimum-populated dataset, the schema file being
\* readable, is_valid returns true and the rendered document satisfies the
\* schema's order and cardinality constraints.
C7_MinimumIsValid ==
    (last.op = "is_valid" /\ last.args[1] /\ MinimumPopulated(dataset, lists))
        => LET doc == Doc
           IN /\ last.ret = TRUE
              /\ XsdOrderOk(doc)
              /\ XsdCardinalityOk(doc)

\* the text of a complete document: the declaration, then the dataset
\* element from its start tag to its end tag
CompleteDocument(content) ==
    /\ Len(content) >= Len(XmlDeclaration) + 6
    /\ SubSeq(content, 1, Len(XmlDeclaration)) = XmlDeclaration
    /\ SubSeq(content, Len(XmlDeclaration) + 1, Len(XmlDeclaration) + 2)
          = <<"<", "dataset">>
    /\ SubSeq(content, Len(content) - 3, Len(content))
          = <<"</", "dataset", ">", "\n">>

\* C8 as stated: save_to_file with validate=true on a dataset for which
\* is_valid is false raises and writes nothing; with validate=false, the
\* file system permitting, the document is written whatever the validity.
C8_SaveHonoursValidate ==
    [][last'.op = "save_to_file" =>
          /\ (last'.args[1] /\ ~IsValid(dataset, lists, last'.args[2]).value)
                => last'.outcome = "ValueError" /\ file' = file
          /\ (~last'.args[1] /\ last'.args[3] = "none")
                => /\ last'.outcome = "ok"
                   /\ file'.exists
                   /\ CompleteDocument(file'.content)]_vars

\* C9 as stated: after any save_to_file call the destination is absent,
\* unchanged, or holds the complete document: no partial file is left.
C9_NoPartialFile ==
    [][last'.op = "save_to_file" =>
          \/ file' = file
          \/ file'.exists /\ CompleteDocument(file'.content)]_vars

\* C10: set_publication_year accepts a year exactly when
\* 1000 <= year <= current_year + 10, current_year read from the clock
\* during the call; an accepted year is stored, a rejected one raises
\* ValueError and leaves the stored year as it was.
C10_YearRange ==
    [][last'.op = "set_publication_year" =>
          LET year == last'.args[1]
              current_year == last'.args[2]
          IN IF 1000 <= year /\ year <= current_year + 10
             THEN /\ last'.outcome = "ok"
                  /\ dataset'.publication_year = year
             ELSE /\ last'.outcome = "ValueError"
                  /\ dataset'.publication_year = dataset.publication_year]_vars

\* the year current_year + 10 has been accepted and stored
C10_Witness ==
    /\ last.op = "set_publication_year"
    /\ last.args[1] = last.args[2] + 10
    /\ last.outcome = "ok"
    /\ dataset.publication_year = last.args[1]
-----------------------------------------------------------------------------
(* The calls explored for the URI arguments: every mutator that takes an   *)
(* IRI or URL, its other arguments valid.                                  *)

\* a scheme without a host
NoHostUri == <<"m", ":", "x">>

\* the texts passed as a required IRI or URL
UriTexts == {GoodUri, BadUri, NoHostUri, <<>>}

\* the values passed as an optional iri: absent, or a text
OptionalUris == {None} \cup {Some(u) : u \in UriTexts}

NextUri ==
    \/ \E u \in UriTexts : CanCall /\ set_iri(u)
    \/ \E i \in OptionalUris :
          CanCall /\ set_terms_of_use(<<"o">>, <<"m">>, None, i)
    \/ \E i \in OptionalUris :
          CanCall /\ add_identifier(<<"1", "0">>, Member("DOI"), i)
    \/ \E i \in OptionalUris : CanCall /\ add_description(<<"d">>, None, i)
    \/ \E i \in OptionalUris :
          CanCall /\ add_alternate_title(<<"a">>, Member("en"), None, i)
    \/ \E i \in OptionalUris :
          CanCall /\ add_subject(<<"s">>, Member("cs"), None,
                                 Some(Member("keyword")), None, i)
    \/ \E i \in OptionalUris :
          CanCall /\ add_agent_relationship(<<"r">>, Member("creator"),
                                            Member("person"), None, i)
    \/ \E i \in OptionalUris :
          CanCall /\ add_time_reference(DateText, Member("created"), i)
    \/ \E i \in OptionalUris :
          CanCall /\ add_location(<<"p">>, Member("place"), i)
    \/ \E u \in UriTexts : \E i \in {None, Some(GoodUri), Some(BadUri)} :
          CanCall /\ add_distribution(u, Some(Member("text/csv")), None, i)
    \/ \E r \in {<<Curator>>, <<>>} : \E i \in OptionalUris :
          CanCall /\ add_metadata_record_new_list(r, None, <<>>, i)
    \/ CanCall /\ add_metadata_record_own_list
    \/ \E pretty_print \in BOOLEAN : to_xml_string(pretty_print)

SpecUri == Init /\ [][NextUri]_vars

-----------------------------------------------------------------------------
(* Properties of the URI check *)

\* a text with a non-empty scheme and a non-empty host: "scheme://host..."
HasSchemeAndHost(u) ==
    \E i \in 2..Len(u) :
        /\ u[i] = ":"
        /\ \A k \in 1..(i - 1) : u[k] # ":"
        /\ Len(u) >= i + 3
        /\ u[i + 1] = "/"
        /\ u[i + 2] = "/"
        /\ u[i + 3] \notin {"/", "?", "#"}

\* the position of the optional iri among the arguments of a mutator, 0
\* when it takes none
IriPosition(op) ==
    CASE op \in {"add_identifier", "add_description", "add_time_reference",
                 "add_location"} -> 3
      [] op \in {"set_terms_of_use", "add_alternate_title",
                 "add_distribution", "add_metadata_record"} -> 4
      [] op = "add_agent_relationship" -> 5
      [] op = "add_subject" -> 6
      [] OTHER -> 0

\* the mutators whose first argument is a required IRI or URL
TakesUrl(op) == op \in {"set_iri", "add_distribution"}

\* every IRI the Dataset holds, each as an Optional
StoredIris(ds) ==
    {ds.iri, ds.terms_of_use.iri}
    \cup {ds.identifiers[i].iri : i \in 1..Len(ds.identifiers)}
    \cup {ds.descriptions[i].iri : i \in 1..Len(ds.descriptions)}
    \cup {ds.alternate_titles[i].iri : i \in 1..Len(ds.alternate_titles)}
    \cup {ds.subjects[i].iri : i \in 1..Len(ds.subjects)}
    \cup {ds.qualified_relations[i].iri : i \in 1..Len(ds.qualified_relations)}
    \cup {ds.time_references[i].iri : i \in 1..Len(ds.time_references)}
    \cup {ds.locations[i].iri : i \in 1..Len(ds.locations)}
    \cup {ds.distributions[i].iri : i \in 1..Len(ds.distributions)}
    \cup {Some(ds.distributions[i].access_url) : i \in 1..Len(ds.distributions)}
    \cup {ds.metadata_records[i].iri : i \in 1..Len(ds.metadata_records)}

-----------------------------------------------------------------------------
(* Properties of add_metadata_record *)

\* C12: add_metadata_record called with an empty relation list raises
\* ValueError with a message that names "qualified_relation" and leaves
\* metadata_records as it was; called with a non-empty list and an absent or
\* well-formed iri it appends exactly one record, which holds that list.
C12_MetadataRecordNeedsRelation ==
    [][last'.op = "add_metadata_record" =>
          LET relations == last'.args[1]
              iri == last'.args[4]
              before == dataset.metadata_records
              after == dataset'.metadata_records
          IN IF relations.content = <<>>
             THEN /\ last'.outcome = "ValueError"
                  /\ HasToken(last'.ret, "qualified_relation")
                  /\ after = before
             ELSE (iri = None \/ HasSchemeAndHost(iri[1])) =>
                     /\ last'.outcome = "ok"
                     /\ Len(after) = Len(before) + 1
                     /\ SubSeq(after, 1, Len(before)) = before
                     /\ Deref(after[Len(after)].qualified_relations,
                              dataset', lists') = relations.content
                     /\ after[Len(after)].iri = iri]_vars

\* an empty relation list has been rejected by a handler that already holds
\* a metadata record
C12_Witness ==
    /\ last.op = "add_metadata_record"
    /\ last.outcome = "ValueError"
    /\ last.args[1].content = <<>>
    /\ dataset.metadata_records # <<>>

-----------------------------------------------------------------------------
(* Properties of the rendering of agents *)

\* the node of a relationship holds one relation element, which holds one
\* child, named after the type of the agent
OneAgentShape(node, rel) ==
    LET relation == KidsTagged(node, "relation")
    IN /\ Len(relation) = 1
       /\ Len(relation[1].kids) = 1
       /\ rel.agent.agent_type = Member("organization")
             => relation[1].kids[1].tag = "organization"
       /\ rel.agent.agent_type = Member("person")
             => relation[1].kids[1].tag = "person"

\* C13: every rendered qualified_relation, on the Dataset and inside a
\* metadata record, has a relation element with exactly one child:
\* "organization" when the agent type is ORGANIZATION, "person" when it is
\* PERSON.
C13_OrganizationOrPerson ==
    LET doc == Doc
        top == KidsTagged(doc, "qualified_relation")
        records == KidsTagged(doc, "is_described_by")
    IN ~Raised(doc) =>
          /\ Len(top) = Len(dataset.qualified_relations)
          /\ \A i \in 1..Len(top) :
                OneAgentShape(top[i], dataset.qualified_relations[i])
          /\ Len(records) = Len(dataset.metadata_records)
          /\ \A j \in 1..Len(records) :
                LET nested == KidsTagged(records[j], "qualified_relation")
                    rels == Deref(dataset.metadata_records[j].qualified_relations,
                                  dataset, lists)
                IN /\ Len(nested) = Len(rels)
                   /\ \A k \in 1..Len(nested) : OneAgentShape(nested[k], rels[k])

\* a metadata record that holds the relationship of an organization is
\* rendered
C13_Witness ==
    /\ ~Raised(Doc)
    /\ \E j \in 1..Len(dataset.metadata_records) :
          LET rels == Deref(dataset.metadata_records[j].qualified_relations,
                            dataset, lists)
          IN \E k \in 1..Len(rels) :
                rels[k].agent.agent_type = Member("organization")

-----------------------------------------------------------------------------
(* ccmm_metadata_handler.py: CCMMMetadataHandler keeps an element tree     *)
(* and a flag per required field.  Its methods append children to the root *)
(* in call order; _reorder_elements puts them in the order of the schema.  *)
(* succeeded records which of its mutators and loads have returned.        *)

\* the number of children of the root up to which the methods that append
\* a child are explored
MaxChildren == 3

\* ET.SubElement(parent, ...) / parent.append(child)
SubElement(parent, child) == [parent EXCEPT !.kids = Append(@, child)]

\* parent.find(tag): the index of the first child with the tag, 0 for None
find_child(parent, tag) ==
    IF \E i \in 1..Len(parent.kids) : parent.kids[i].tag = tag
    THEN CHOOSE i \in 1..Len(parent.kids) :
            /\ parent.kids[i].tag = tag
            /\ \A j \in 1..(i - 1) : parent.kids[j].tag # tag
    ELSE 0

\* CCMMMetadataHandler._validate_identifier
_validate_identifier(identifier) ==
    /\ ~(identifier = <<>> \/ strip(identifier) = <<>>)
    /\ ~(Len(identifier) > 255)

\* a call of CCMMMetadataHandler that raised before it touched the tree
MH_Rejected(op, args) ==
    /\ last' = Call(op, args, "ValueError", NoValue)
    /\ UNCHANGED <<dataset, lists, added, file, mh_vars, ccmm_path>>

\* a call of CCMMMetadataHandler that returned
MH_Done(op, args, root, flags) ==
    /\ metadata' = root
    /\ required_fields' = flags
    /\ succeeded' = succeeded \cup {op}
    /\ last' = Call(op, args, "ok", NoValue)
    /\ UNCHANGED <<dataset, lists, added, file, ccmm_path>>

\* a variant that appends a child whether or not one exists
SetOrAppend_appending(root, tag, text) ==
    SubElement(root, TextNode(tag, text))

\* set the text of the first child with the tag, or append such a child
SetOrAppend(root, tag, text) ==
    LET i == find_child(root, tag)
    IN IF i # 0 THEN [root EXCEPT !.kids[i].text = text]
       ELSE SubElement(root, TextNode(tag, text))

\* a variant that sets the flag before it checks the title
MH_set_title_flag_first(title) ==
    IF strip(title) = <<>>
    THEN /\ required_fields' = [required_fields EXCEPT !.title = TRUE]
         /\ last' = Call("CCMMMetadataHandler.set_title", <<title>>,
                         "ValueError", NoValue)
         /\ UNCHANGED <<dataset, lists, added, file, ccmm_path, metadata,
                        succeeded>>
    ELSE MH_Done("CCMMMetadataHandler.set_title", <<title>>,
                 SetOrAppend(metadata, "title", title),
                 [required_fields EXCEPT !.title = TRUE])

MH_set_title(title) ==
    IF strip(title) = <<>>
    THEN MH_Rejected("CCMMMetadataHandler.set_title", <<title>>)
    ELSE MH_Done("CCMMMetadataHandler.set_title", <<title>>,
                 SetOrAppend(metadata, "title", title),
                 [required_fields EXCEPT !.title = TRUE])

MH_set_publication_year(year, current_year) ==
    IF ~_validate_year(year, current_year)
    THEN MH_Rejected("CCMMMetadataHandler.set_publication_year",
                     <<year, current_year>>)
    ELSE MH_Done("CCMMMetadataHandler.set_publication_year",
                 <<year, current_year>>,
                 SetOrAppend(metadata, "publication_year", str(year)),
                 [required_fields EXCEPT !.publication_year = TRUE])

MH_add_identifier(value, scheme, iri) ==
    LET args == <<value, scheme, iri>>
    IN IF /\ _validate_identifier(value)
          /\ _validate_identifier(scheme)
          /\ OptionalUriOk(iri)
       THEN MH_Done("CCMMMetadataHandler.add_identifier", args,
                    SubElement(metadata,
                        Node("identifier", <<>>, <<>>,
                                <<TextNode("value", value), TextNode("scheme", scheme)>>
                                \o IriKid(iri))),
                    [required_fields EXCEPT !.identifier = TRUE])
       ELSE MH_Rejected("CCMMMetadataHandler.add_identifier", args)

MH_add_description(text) ==
    IF strip(text) = <<>>
    THEN MH_Rejected("CCMMMetadataHandler.add_description", <<text>>)
    ELSE MH_Done("CCMMMetadataHandler.add_description", <<text>>,
                 SubElement(metadata,
                     Node("has_description", <<>>, <<>>,
                             <<TextNode("description_text", text)>>)),
                 required_fields)

\* the subject element is appended to the root before the scheme is checked
MH_add_subject(subject, scheme) ==
    LET args == <<subject, scheme>>
        bare == Node("subject", <<>>, <<>>, <<TextNode("subject_value", subject)>>)
    IN IF ~_validate_non_empty_string(subject)
       THEN MH_Rejected("CCMMMetadataHandler.add_subject", args)
       ELSE IF ~Truthy(scheme)
       THEN MH_Done("CCMMMetadataHandler.add_subject", args,
                    SubElement(metadata, bare), required_fields)
       ELSE IF ~_validate_non_empty_string(scheme[1])
       THEN /\ metadata' = SubElement(metadata, bare)
            /\ last' = Call("CCMMMetadataHandler.add_subject", args,
                            "ValueError", NoValue)
            /\ UNCHANGED <<dataset, lists, added, file, ccmm_path,
                           required_fields, succeeded>>
       ELSE MH_Done("CCMMMetadataHandler.add_subject", args,
                    SubElement(metadata,
                        SubElement(bare, TextNode("subject_scheme", scheme[1]))),
                    required_fields)

\* load_from_file: parsed is the root ET.parse yields; the flags stay
MH_load_from_file(parsed) ==
    /\ metadata' = parsed
    /\ succeeded' = succeeded \cup {"CCMMMetadataHandler.load_from_file"}
    /\ last' = Call("CCMMMetadataHandler.load_from_file", <<parsed>>, "ok", TRUE)
    /\ UNCHANGED <<dataset, lists, added, file, ccmm_path, required_fields>>

\* load_from_file of a file that is missing or is not well-formed XML
MH_load_from_file_failed ==
    /\ last' = Call("CCMMMetadataHandler.load_from_file", <<>>, "ok", FALSE)
    /\ UNCHANGED <<dataset, lists, added, file, mh_vars, ccmm_path>>

xsd_order ==
    <<"iri", "publication_year", "version", "title", "has_description",
      "alternate_title", "is_described_by", "identifier", "location",
      "provenance", "qualified_relation", "time_reference", "subject",
      "validation_result", "distribution", "funding_reference",
      "terms_of_use", "related_resource", "resource_type", "other_language",
      "primary_language">>

\* element_mapping.get(tag, tag)
element_mapping(tag) ==
    CASE tag = "has_description" -> "has_description"
      [] tag = "alternate_title" -> "alternate_title"
      [] tag = "identifier" -> "identifier"
      [] tag = "location" -> "location"
      [] tag = "qualified_relation" -> "qualified_relation"
      [] tag = "time_reference" -> "time_reference"
      [] tag = "subject" -> "subject"
      [] tag = "distribution" -> "distribution"
      [] OTHER -> tag

\* elements[name]: the children collected under a name, in document order
elements(kids, name) ==
    SelectSeq(kids, LAMBDA child : element_mapping(child.tag) = name)

\* "for element_name in xsd_order: ... self.metadata.append(element)"
RECURSIVE AppendInOrder(_, _)
AppendInOrder(names, kids) ==
    IF names = <<>> THEN <<>>
    ELSE elements(kids, Head(names)) \o AppendInOrder(Tail(names), kids)

\* a variant that appends each group last child first
RECURSIVE AppendInOrder_reversed(_, _)
AppendInOrder_reversed(names, kids) ==
    IF names = <<>> THEN <<>>
    ELSE LET group == elements(kids, Head(names))
         IN [i \in 1..Len(group) |-> group[Len(group) + 1 - i]]
            \o AppendInOrder_reversed(Tail(names), kids)

\* a variant that keeps the children of the other tags, after the rest
_reorder_elements_keeping_others(root) ==
    [tag |-> root.tag, attrib |-> <<>>, text |-> <<>>, tail |-> <<>>,
     kids |-> AppendInOrder(xsd_order, root.kids)
              \o SelectSeq(root.kids,
                           LAMBDA child :
                               \A i \in 1..Len(xsd_order) :
                                   xsd_order[i] # element_mapping(child.tag))]

\* a variant that reverses each group
_reorder_elements_reversing(root) ==
    [tag |-> root.tag, attrib |-> <<>>, text |-> <<>>, tail |-> <<>>,
     kids |-> AppendInOrder_reversed(xsd_order, root.kids)]

\* CCMMMetadataHandler._reorder_elements as a function of the root;
\* Element.clear() also drops the attributes, the text and the tail of the
\* root
_reorder_elements(root) ==
    [tag |-> root.tag, attrib |-> <<>>, text |-> <<>>, tail |-> <<>>,
     kids |-> AppendInOrder(xsd_order, root.kids)]

\* a call of _reorder_elements; the call record holds the tree it was
\* applied to
MH_reorder_elements ==
    /\ metadata' = _reorder_elements(metadata)
    /\ last' = Call("CCMMMetadataHandler._reorder_elements", <<metadata>>,
                    "ok", NoValue)
    /\ UNCHANGED <<dataset, lists, added, file, ccmm_path, required_fields,
                   succeeded>>

\* a method that appends its element and only then checks the optional
\* second argument: when that check raises, the element stays in the tree
AppendThenCheck(op, args, tag, first_tag, first, second_tag, second) ==
    LET bare == Node(tag, <<>>, <<>>, <<TextNode(first_tag, first)>>)
    IN IF ~Truthy(second)
       THEN MH_Done(op, args, SubElement(metadata, bare), required_fields)
       ELSE IF ~_validate_non_empty_string(second[1])
       THEN /\ metadata' = SubElement(metadata, bare)
            /\ last' = Call(op, args, "ValueError", NoValue)
            /\ UNCHANGED <<dataset, lists, added, file, ccmm_path,
                           required_fields, succeeded>>
       ELSE MH_Done(op, args,
                    SubElement(metadata,
                        SubElement(bare, TextNode(second_tag, second[1]))),
                    required_fields)

MH_set_version(version) ==
    IF ~_validate_non_empty_string(version)
    THEN MH_Rejected("CCMMMetadataHandler.set_version", <<version>>)
    ELSE MH_Done("CCMMMetadataHandler.set_version", <<version>>,
                 SetOrAppend(metadata, "version", version), required_fields)

MH_add_alternate_title(title, title_type) ==
    IF ~_validate_non_empty_string(title)
    THEN MH_Rejected("CCMMMetadataHandler.add_alternate_title",
                     <<title, title_type>>)
    ELSE AppendThenCheck("CCMMMetadataHandler.add_alternate_title",
                         <<title, title_type>>, "alternate_title",
                         "title", title, "title_type", title_type)

MH_add_agent_relationship(agent_name, role, agent_type) ==
    LET args == <<agent_name, role, agent_type>>
    IN IF /\ _validate_non_empty_string(agent_name)
          /\ _validate_non_empty_string(role)
          /\ _validate_non_empty_string(agent_type)
       THEN MH_Done("CCMMMetadataHandler.add_agent_relationship", args,
                    SubElement(metadata,
                        Node("qualified_relation", <<>>, <<>>,
                             <<TextNode("agent_name", agent_name),
                               TextNode("role", role),
                               TextNode("agent_type", agent_type)>>)),
                    required_fields)
       ELSE MH_Rejected("CCMMMetadataHandler.add_agent_relationship", args)

MH_add_distribution(access_url, format_type) ==
    IF ~_validate_uri(access_url)
    THEN MH_Rejected("CCMMMetadataHandler.add_distribution",
                     <<access_url, format_type>>)
    ELSE AppendThenCheck("CCMMMetadataHandler.add_distribution",
                         <<access_url, format_type>>, "distribution",
                         "access_url", access_url, "format", format_type)

MH_add_location(location, location_type) ==
    IF ~_validate_non_empty_string(location)
    THEN MH_Rejected("CCMMMetadataHandler.add_location",
                     <<location, location_type>>)
    ELSE AppendThenCheck("CCMMMetadataHandler.add_location",
                         <<location, location_type>>, "location",
                         "location_value", location,
                         "location_type", location_type)

MH_add_time_reference(time_value, time_type) ==
    LET args == <<time_value, time_type>>
    IN IF /\ _validate_non_empty_string(time_value)
          /\ _validate_non_empty_string(time_type)
       THEN MH_Done("CCMMMetadataHandler.add_time_reference", args,
                    SubElement(metadata,
                        Node("time_reference", <<>>, <<>>,
                             <<TextNode("time_value", time_value),
                               TextNode("time_type", time_type)>>)),
                    required_fields)
       ELSE MH_Rejected("CCMMMetadataHandler.add_time_reference", args)

\* level * "  "
RECURSIVE Spaces(_)
Spaces(level) ==
    IF level = 0 THEN <<>> ELSE <<" ", " ">> \o Spaces(level - 1)

\* "not elem.text or not elem.text.strip()"
BlankText(text) == text = <<>> \/ strip(text) = <<>>

\* CCMMMetadataHandler._indent: it writes the indentation into the text and
\* the tail of the elements of the tree; after its loop the name elem is the
\* last child, whose tail is set back to the indentation of the parent
RECURSIVE _indent(_, _)
_indent(elem, level) ==
    LET i == <<"\n">> \o Spaces(level)
    IN IF elem.kids # <<>>
       THEN LET kids == [k \in 1..Len(elem.kids) |->
                            _indent(elem.kids[k], level + 1)]
            IN [elem EXCEPT
                  !.text = IF BlankText(@) THEN i \o <<" ", " ">> ELSE @,
                  !.tail = IF BlankText(@) THEN i ELSE @,
                  !.kids = [kids EXCEPT ![Len(kids)].tail =
                                IF BlankText(@) THEN i ELSE @]]
       ELSE IF level # 0 /\ BlankText(elem.tail)
       THEN [elem EXCEPT !.tail = i]
       ELSE elem

\* ET.tostring(self.metadata, encoding='unicode'): every element is written
\* with its text and followed by its tail
RECURSIVE serialize_xml(_)
RECURSIVE serialize_all(_)
serialize_xml(elem) ==
    (IF elem.text = <<>> /\ elem.kids = <<>>
     THEN <<"<", elem.tag>> \o AttribTokens(elem.attrib) \o <<" />">>
     ELSE <<"<", elem.tag>> \o AttribTokens(elem.attrib) \o <<">">>
          \o escape_cdata(elem.text)
          \o serialize_all(elem.kids)
          \o <<"</", elem.tag, ">">>)
    \o escape_cdata(elem.tail)

serialize_all(kids) ==
    IF kids = <<>> THEN <<>>
    ELSE serialize_xml(kids[1]) \o serialize_all(Tail(kids))

\* validate_against_xsd("dataset/schema.xsd") inside the try of is_valid
validate_against_xsd(root, schema_readable) ==
    ExceptReturnFalse(
        IF ~schema_readable THEN Raise("FileNotFoundError")
        ELSE Return(XsdValidates(etree_fromstring(serialize_xml(root)))))

\* all(self.required_fields.values())
AllRequired(flags) == \A f \in DOMAIN flags : flags[f]

MH_validate_required_fields ==
    /\ last' = Call("CCMMMetadataHandler.validate_required_fields", <<>>, "ok",
                    required_fields)
    /\ UNCHANGED <<dataset, lists, added, file, mh_vars, ccmm_path>>

\* is_valid: without the required fields it returns at once; otherwise it
\* reorders the tree and validates the result
MH_is_valid(schema_readable) ==
    IF ~AllRequired(required_fields)
    THEN /\ last' = Call("CCMMMetadataHandler.is_valid", <<schema_readable>>,
                         "ok", FALSE)
         /\ UNCHANGED <<dataset, lists, added, file, mh_vars, ccmm_path>>
    ELSE LET root == _reorder_elements(metadata)
         IN /\ metadata' = root
            /\ last' = Call("CCMMMetadataHandler.is_valid", <<schema_readable>>,
                            "ok",
                            validate_against_xsd(root, schema_readable).value)
            /\ UNCHANGED <<dataset, lists, added, file, ccmm_path,
                           required_fields, succeeded>>

\* the tree to_xml_string leaves behind
Exported(root, pretty_print) ==
    IF pretty_print THEN _indent(_reorder_elements(root), 0)
    ELSE _reorder_elements(root)

MH_to_xml_string(pretty_print) ==
    LET root == Exported(metadata, pretty_print)
    IN /\ metadata' = root
       /\ last' = Call("CCMMMetadataHandler.to_xml_string", <<pretty_print>>,
                       "ok", serialize_xml(root))
       /\ UNCHANGED <<dataset, lists, added, file, ccmm_path, required_fields,
                      succeeded>>

\* the declaration tree.write puts in front of the document
TreeDeclaration == <<"<?xml version='1.0' encoding='utf-8'?>", "\n">>

\* save_to_file: the tree is reordered and indented before the file is
\* opened; io is "open" when the file cannot be opened, "none" otherwise
MH_save_to_file(io) ==
    LET root == _indent(_reorder_elements(metadata), 0)
    IN /\ metadata' = root
       /\ IF io = "open"
          THEN /\ last' = Call("CCMMMetadataHandler.save_to_file", <<io>>,
                               "OSError", NoValue)
               /\ UNCHANGED file
          ELSE /\ last' = Call("CCMMMetadataHandler.save_to_file", <<io>>,
                               "ok", NoValue)
               /\ file' = Written(TreeDeclaration \o serialize_xml(root))
       /\ UNCHANGED <<dataset, lists, added, ccmm_path, required_fields,
                      succeeded>>

\* files read by load_from_file: children out of order with tags the schema
\* does not know, and a document of another kind
FileShuffled ==
    Node("dataset", <<>>, <<>>,
            <<TextNode("subject", <<"s">>), TextNode("keyword", <<"k">>),
              TextNode("identifier", <<"1">>), TextNode("title", TitleA),
              TextNode("identifier", <<"2">>), TextNode("title", TitleB)>>)

FileForeign ==
    Node("record", <<<<"id", "7">>>>, <<>>,
            <<TextNode("note", <<"n">>), TextNode("version", <<"1">>),
              TextNode("iri", GoodUri)>>)

\* the methods that append a child are followed while the root is small
CanAppend == Len(metadata.kids) < MaxChildren

NextReorder ==
    \/ \E t \in {TitleA, TitleB, Blank} : CanAppend /\ MH_set_title(t)
    \/ \E y \in {999, DefaultYear} :
          CanAppend /\ MH_set_publication_year(y, DefaultYear)
    \/ \E c \in {<<<<"1">>, <<"D">>>>, <<<<"2">>, <<"A">>>>, <<<<>>, <<"D">>>>} :
          CanAppend /\ MH_add_identifier(c[1], c[2], None)
    \/ \E t \in {<<"d">>, Blank} : CanAppend /\ MH_add_description(t)
    \/ \E c \in {None, Some(<<"k">>), Some(Blank)} :
          CanAppend /\ MH_add_subject(<<"s">>, c)
    \/ \E parsed \in {FileShuffled, FileForeign} : MH_load_from_file(parsed)
    \/ MH_load_from_file_failed
    \/ MH_reorder_elements

SpecReorder == Init /\ [][NextReorder]_vars

\* a file that holds a complete dataset
FileComplete ==
    Node("dataset", <<>>, <<>>,
         <<TextNode("title", TitleA),
           TextNode("publication_year", str(DefaultYear)),
           Node("identifier", <<>>, <<>>,
                <<TextNode("value", <<"9">>), TextNode("scheme", <<"D">>)>>),
           Node("is_described_by", <<>>, <<>>,
                <<TextNode("qualified_relation", <<"c">>)>>),
           TextNode("qualified_relation", <<"a">>),
           TextNode("qualified_relation", <<"b">>),
           TextNode("time_reference", DateText),
           TextNode("subject", <<"s">>),
           TextNode("terms_of_use", <<"o">>)>>)

\* The handler is followed up to its first export that leaves a file; after
\* it the validation and the exports are explored, no mutator and no load.
MH_Building == ~file.exists

\* a setter is followed when it overwrites or when the root is small
CanSet(tag) == MH_Building /\ (CanAppend \/ find_child(metadata, tag) # 0)

\* the mutators of the required fields and of the version, the loading of
\* a file, the validation and the exports
NextMetadata ==
    \/ \E t \in {TitleA, TitleB, <<>>} : CanSet("title") /\ MH_set_title(t)
    \/ \E y \in {DefaultYear, DefaultYear + 1, 3000} :
          CanSet("publication_year")
          /\ MH_set_publication_year(y, DefaultYear)
    \/ \E v \in {<<"1">>, <<"2">>, Blank} :
          CanSet("version") /\ MH_set_version(v)
    \/ \E c \in {<<<<"1">>, None>>, <<<<>>, None>>, <<<<"1">>, Some(BadUri)>>} :
          MH_Building /\ CanAppend /\ MH_add_identifier(c[1], <<"D">>, c[2])
    \/ \E parsed \in {FileShuffled, FileComplete} :
          MH_Building /\ MH_load_from_file(parsed)
    \/ MH_Building /\ MH_load_from_file_failed
    \/ MH_validate_required_fields
    \/ \E schema_readable \in BOOLEAN : MH_is_valid(schema_readable)
    \/ \E pretty_print \in BOOLEAN : MH_to_xml_string(pretty_print)
    \/ \E io \in {"none", "open"} : MH_save_to_file(io)

SpecMetadata == Init /\ [][NextMetadata]_vars

\* every mutator is followed while the root holds fewer children still
CanAppendFew == Len(metadata.kids) + 1 < MaxChildren

\* every mutator of CCMMMetadataHandler, with arguments it accepts and
\* arguments it rejects
NextMutators ==
    \/ \E t \in {TitleA, <<>>} : CanAppendFew /\ MH_set_title(t)
    \/ \E y \in {DefaultYear, 3000} :
          CanAppendFew /\ MH_set_publication_year(y, DefaultYear)
    \/ \E v \in {<<"1">>, Blank} : CanAppendFew /\ MH_set_version(v)
    \/ \E c \in {<<<<"1">>, None>>, <<Blank, None>>, <<<<"1">>, Some(BadUri)>>} :
          CanAppendFew /\ MH_add_identifier(c[1], <<"D">>, c[2])
    \/ \E t \in {<<"d">>, Blank} : CanAppendFew /\ MH_add_description(t)
    \/ \E c \in {<<<<"a">>, Some(<<"t">>)>>, <<<<"a">>, Some(Blank)>>,
                 <<Blank, None>>} :
          CanAppendFew /\ MH_add_alternate_title(c[1], c[2])
    \/ \E c \in {<<<<"s">>, Some(<<"k">>)>>, <<<<"s">>, Some(Blank)>>,
                 <<Blank, None>>} :
          CanAppendFew /\ MH_add_subject(c[1], c[2])
    \/ \E c \in {<<<<"r">>, <<"c">>>>, <<<<"r">>, Blank>>} :
          CanAppendFew /\ MH_add_agent_relationship(c[1], c[2], <<"p">>)
    \/ \E c \in {<<GoodUri, Some(<<"f">>)>>, <<GoodUri, Some(Blank)>>,
                 <<BadUri, None>>} :
          CanAppendFew /\ MH_add_distribution(c[1], c[2])
    \/ \E c \in {<<<<"p">>, Some(<<"c">>)>>, <<<<"p">>, Some(Blank)>>,
                 <<Blank, None>>} :
          CanAppendFew /\ MH_add_location(c[1], c[2])
    \/ \E c \in {<<DateText, <<"c">>>>, <<DateText, Blank>>} :
          CanAppendFew /\ MH_add_time_reference(c[1], c[2])

SpecMutators == Init /\ [][NextMutators]_vars

-----------------------------------------------------------------------------
(* Properties of the reorder pass *)

\* the canonical 21-slot order of the specification
CanonicalSlots ==
    <<"iri", "publication_year", "version", "title", "has_description",
      "alternate_title", "is_described_by", "identifier", "location",
      "provenance", "qualified_relation", "time_reference", "subject",
      "validation_result", "distribution", "funding_reference",
      "terms_of_use", "related_resource", "resource_type", "other_language",
      "primary_language">>

SlotOf(tag) ==
    IF \E i \in 1..Len(CanonicalSlots) : CanonicalSlots[i] = tag
    THEN CHOOSE i \in 1..Len(CanonicalSlots) : CanonicalSlots[i] = tag
    ELSE 0

IsCanonical(tag) == SlotOf(tag) # 0

\* the children of one tag, in document order
OfTag(kids, tag) == SelectSeq(kids, LAMBDA child : child.tag = tag)

\* how many times an element occurs among the children
Occurrences(kids, e) == Cardinality({k \in 1..Len(kids) : kids[k] = e})

\* the step is a call of _reorder_elements
ReorderStep == last'.op = "CCMMMetadataHandler._reorder_elements"

\* C14: after _reorder_elements the children are grouped by tag, the groups
\* follow the canonical 21-slot order, and within each group the children
\* keep the relative order they had before the pass.
C14_ReorderIsStable ==
    [][ReorderStep =>
          LET before == metadata.kids
              after == metadata'.kids
          IN /\ \A i, j \in 1..Len(after) :
                   i < j => SlotOf(after[i].tag) <= SlotOf(after[j].tag)
             /\ \A i, j, k \in 1..Len(after) :
                   (i < j /\ j < k /\ after[i].tag = after[k].tag)
                       => after[j].tag = after[i].tag
             /\ \A k \in 1..Len(after) :
                   OfTag(after, after[k].tag) = OfTag(before, after[k].tag)]_vars

\* _reorder_elements has been applied to a tree that held a later slot
\* before an earlier one and two children of one tag
C14_Witness ==
    /\ last.op = "CCMMMetadataHandler._reorder_elements"
    /\ LET before == last.args[1].kids
       IN /\ \E i, j \in 1..Len(before) :
                /\ i < j
                /\ IsCanonical(before[j].tag)
                /\ SlotOf(before[i].tag) > SlotOf(before[j].tag)
          /\ \E i, j \in 1..Len(before) :
                i < j /\ before[i].tag = before[j].tag /\ before[i] # before[j]

\* C15: the reorder pass keeps every child whose tag is in the canonical
\* list exactly once and drops every child whose tag is not: after the pass
\* no other tag remains under the root, and no child is lost or duplicated.
C15_ReorderKeepsCanonical ==
    [][ReorderStep =>
          LET before == metadata.kids
              after == metadata'.kids
          IN /\ \A k \in 1..Len(after) : IsCanonical(after[k].tag)
             /\ \A k \in 1..Len(before) :
                   Occurrences(after, before[k]) =
                       IF IsCanonical(before[k].tag)
                       THEN Occurrences(before, before[k])
                       ELSE 0
             /\ \A k \in 1..Len(after) : Occurrences(before, after[k]) > 0]_vars

\* _reorder_elements has been applied to a tree with a child of a tag that
\* is not canonical next to children of canonical tags
C15_Witness ==
    /\ last.op = "CCMMMetadataHandler._reorder_elements"
    /\ \E k \in 1..Len(last.args[1].kids) :
          ~IsCanonical(last.args[1].kids[k].tag)
    /\ metadata.kids # <<>>

-----------------------------------------------------------------------------
(* Properties of the enumerated arguments *)

\* the values a call passes for its enumerated arguments
EnumArgs(c) ==
    LET OfOptional(opt) == IF opt = None THEN {} ELSE {opt[1]}
    IN CASE c.op \in {"set_primary_language", "add_other_language"} ->
                {c.args[1]}
         [] c.op \in {"add_identifier", "add_alternate_title",
                      "add_time_reference", "add_location"} ->
                {c.args[2]}
         [] c.op = "add_subject" -> {c.args[2]} \cup OfOptional(c.args[4])
         [] c.op = "add_agent_relationship" -> {c.args[2], c.args[3]}
         [] c.op = "add_distribution" -> OfOptional(c.args[2])
         [] OTHER -> {}

\* C16: a mutator call that passes a value outside the closed vocabulary for
\* an enumerated argument ends in a validation error, and the Dataset never
\* comes to hold a value on which rendering fails.
C16_UnknownEnumRejected ==
    /\ (\E e \in EnumArgs(last) : e.kind = "str")
           => last.outcome = "ValueError"
    /\ ~Raised(Doc)

-----------------------------------------------------------------------------
(* Properties of the schema file *)

\* the last call went as far as the schema-conformance step and could not
\* read the schema file
SchemaFileUnreadable ==
    /\ \/ last.op = "is_valid" /\ ~last.args[1]
       \/ last.op = "save_to_file" /\ last.args[1] /\ ~last.args[2]
    /\ StructuralOk(dataset)
    /\ ~Raised(Doc)

\* the outcome the caller sees when the document does not conform
SaysDoesNotConform ==
    IF last.op = "is_valid"
    THEN last.outcome = "ok" /\ last.ret = FALSE
    ELSE last.outcome = "ValueError"

\* C17: when the schema file is missing or unreadable, the caller of the
\* schema-conformance step sees an error of its own, not the outcome of a
\* document that does not conform to the schema.
C17_SchemaErrorSurfaced == SchemaFileUnreadable => ~SaysDoesNotConform

\* the schema file of the dataset under a root directory
SchemaUnder(root) == root \o <<"dataset", "schema.xsd">>

-----------------------------------------------------------------------------
(* Properties of ownership *)

\* the relations a stored metadata record holds in a state
RelationsOf(r, ds, heap) == Deref(r.qualified_relations, ds, heap)

\* C19: no list is shared by two owners: the relation list of a metadata
\* record is never the Dataset's own qualified_relations list, also when
\* the record was made from the list get_agent_relationships returned, and
\* a call of add_agent_relationship leaves the relations of every stored
\* metadata record as they were.
C19_NoSharedList ==
    [][/\ \A i \in 1..Len(dataset'.metadata_records) :
             dataset'.metadata_records[i].qualified_relations # DatasetList
       /\ last'.op = "add_agent_relationship" =>
             \A i \in 1..Len(dataset.metadata_records) :
                 RelationsOf(dataset.metadata_records[i], dataset', lists')
                     = RelationsOf(dataset.metadata_records[i], dataset, lists)]_vars

-----------------------------------------------------------------------------
(* Properties of the transitions of the facade *)

\* the list fields of the Dataset
Collections ==
    {"identifiers", "metadata_records", "qualified_relations",
     "time_references", "subjects", "descriptions", "alternate_titles",
     "locations", "distributions", "other_languages"}

\* the scalar fields of the Dataset and the setter of each
SetterOf ==
    [title |-> "set_title", publication_year |-> "set_publication_year",
     version |-> "set_version", iri |-> "set_iri",
     primary_language |-> "set_primary_language",
     terms_of_use |-> "set_terms_of_use"]

IsPrefix(s, t) == Len(s) <= Len(t) /\ \A i \in 1..Len(s) : s[i] = t[i]

\* C20: the transitions of the facade are monotonic additions: every
\* collection of the Dataset, and the relation list of every stored
\* metadata record, has its earlier value as a prefix, and a scalar changes
\* only in a call of its own setter.
C20_MonotonicAdditions ==
    [][/\ \A c \in Collections : IsPrefix(dataset[c], dataset'[c])
       /\ \A i \in 1..Len(dataset.metadata_records) :
             IsPrefix(RelationsOf(dataset.metadata_records[i], dataset, lists),
                      RelationsOf(dataset.metadata_records[i], dataset', lists'))
       /\ \A f \in DOMAIN SetterOf :
             dataset'[f] # dataset[f] =>
                 last'.op = SetterOf[f] /\ last'.outcome = "ok"
       /\ DOMAIN dataset' = Collections \cup DOMAIN SetterOf]_vars

\* a second element has been appended to a collection that held one
C20_Witness ==
    /\ last.op = "add_other_language"
    /\ last.outcome = "ok"
    /\ Len(dataset.other_languages) = 2

-----------------------------------------------------------------------------
(* Properties of the states of a handler *)

\* the Empty state of the specification
EmptyState(ds) ==
    /\ ds.terms_of_use = DefaultTerms
    /\ ~TitlePresent(ds)
    /\ ds.identifiers = <<>>
    /\ ds.metadata_records = <<>>
    /\ ds.qualified_relations = <<>>
    /\ ds.time_references = <<>>
    /\ ds.subjects = <<>>

\* each of the six calls has succeeded at least once: the five add_* calls
\* by the history of the calls, set_title by the title it left
SixCallsSucceeded ==
    /\ dataset.title # <<>>
    /\ \A g \in {"identifier", "is_described_by", "qualified_relation",
                 "time_reference", "subject"} : added[g] # <<>>

\* C21: a freshly constructed CCMMHandler is in the Empty state and is_valid
\* returns false on it; is_valid returns true only after at least one
\* successful call of each of set_title, add_identifier,
\* add_metadata_record, add_agent_relationship, add_time_reference and
\* add_subject.
C21_EmptyThenValid ==
    /\ last.op = "__init__" =>
          /\ EmptyState(dataset)
          /\ \A schema_readable \in BOOLEAN :
                IsValid(dataset, lists, schema_readable) = Return(FALSE)
    /\ (last.op = "is_valid" /\ last.ret = TRUE) => SixCallsSucceeded

\* is_valid has returned true on a handler that also holds a distribution
C21_Witness ==
    /\ last.op = "is_valid"
    /\ last.ret = TRUE
    /\ dataset.distributions # <<>>
    /\ SixCallsSucceeded

-----------------------------------------------------------------------------
(* Properties of the required fields of CCMMMetadataHandler *)

\* the method that fills each required field
RequiredSetter ==
    [title |-> "CCMMMetadataHandler.set_title",
     publication_year |-> "CCMMMetadataHandler.set_publication_year",
     identifier |-> "CCMMMetadataHandler.add_identifier"]

AllThreeSucceeded == \A f \in DOMAIN RequiredSetter : RequiredSetter[f] \in succeeded

\* C22: CCMMMetadataHandler.is_valid returns true only when set_title,
\* set_publication_year and add_identifier have each succeeded; once all
\* three have succeeded validate_required_fields reports every field as
\* true; and a flag is set only by a successful call of its method, never
\* by a rejected one.
C22_RequiredFlags ==
    /\ (last.op = "CCMMMetadataHandler.is_valid" /\ last.ret = TRUE)
           => AllThreeSucceeded
    /\ AllThreeSucceeded =>
           /\ AllRequired(required_fields)
           /\ last.op = "CCMMMetadataHandler.validate_required_fields" =>
                  \A f \in DOMAIN RequiredSetter : last.ret[f] = TRUE
    /\ \A f \in DOMAIN RequiredSetter :
           required_fields[f] => RequiredSetter[f] \in succeeded

\* validate_required_fields has been called after the three have succeeded
C22_Witness ==
    /\ last.op = "CCMMMetadataHandler.validate_required_fields"
    /\ AllThreeSucceeded
    /\ last.ret = required_fields

-----------------------------------------------------------------------------
(* Properties of the rejected calls of CCMMMetadataHandler *)

MH_Mutators ==
    {"CCMMMetadataHandler.set_title", "CCMMMetadataHandler.set_publication_year",
     "CCMMMetadataHandler.set_version", "CCMMMetadataHandler.add_identifier",
     "CCMMMetadataHandler.add_description",
     "CCMMMetadataHandler.add_alternate_title",
     "CCMMMetadataHandler.add_subject",
     "CCMMMetadataHandler.add_agent_relationship",
     "CCMMMetadataHandler.add_distribution",
     "CCMMMetadataHandler.add_location",
     "CCMMMetadataHandler.add_time_reference"}

\* C23: a mutator of CCMMMetadataHandler that raises leaves the tree and
\* the required-field flags as they were, also when it raises on its
\* optional second argument: no child has been appended.
C23_RaiseLeavesTree ==
    [][(last'.op \in MH_Mutators /\ last'.outcome # "ok") =>
           /\ metadata' = metadata
           /\ required_fields' = required_fields]_vars

-----------------------------------------------------------------------------
(* Properties of the stored metadata records *)

\* C24: every metadata record the Dataset holds has at least one qualified
\* relation, whether its list is one the caller built or the Dataset's own.
C24_RecordsHaveRelation ==
    \A i \in 1..Len(dataset.metadata_records) :
        RelationsOf(dataset.metadata_records[i], dataset, lists) # <<>>

\* the Dataset holds a record made from the caller's list and a record made
\* from its own list
C24_Witness ==
    /\ \E i \in 1..Len(dataset.metadata_records) :
          dataset.metadata_records[i].qualified_relations = DatasetList
    /\ \E i \in 1..Len(dataset.metadata_records) :
          dataset.metadata_records[i].qualified_relations # DatasetList

-----------------------------------------------------------------------------
(* Properties of the publication year *)

\* the latest reading of the clock
LatestYear == DefaultYear + ClockSpan

\* C25: in every state, from construction on, the publication year lies in
\* [1000, current_year + 10]: the year of a new Dataset does for every
\* reading of the clock, a year is stored only by a successful
\* set_publication_year and lies in the range of the clock reading of that
\* call, and so in the range of every later reading.
C25_YearAlwaysInRange ==
    [][/\ last.op = "__init__" =>
             \A now \in Clock :
                 1000 <= dataset.publication_year
                 /\ dataset.publication_year <= now + 10
       /\ 1000 <= dataset'.publication_year
       /\ dataset'.publication_year <= LatestYear + 10
       /\ dataset'.publication_year # dataset.publication_year =>
             /\ last'.op = "set_publication_year"
             /\ last'.outcome = "ok"
             /\ dataset'.publication_year <= last'.args[2] + 10]_vars

\* the year 1000 has been stored and another operation has followed
C25_Witness ==
    /\ dataset.publication_year = 1000
    /\ last.op # "set_publication_year"

-----------------------------------------------------------------------------
(* Properties of the exports of CCMMMetadataHandler *)

\* the calls that validate or export
MH_Readers ==
    {"CCMMMetadataHandler.is_valid", "CCMMMetadataHandler.to_xml_string",
     "CCMMMetadataHandler.save_to_file"}

\* the text to_xml_string(pretty_print) returns on a tree
TextOf(root, pretty_print) == serialize_xml(Exported(root, pretty_print))

\* C26: rendering by CCMMMetadataHandler is pure: a call of is_valid,
\* to_xml_string or save_to_file changes neither what a later
\* to_xml_string returns, for either flag, nor any child of the tree; the
\* compact text is the same whether or not a pretty-printed export came
\* before it.
C26_ExportsArePure ==
    [][last'.op \in MH_Readers =>
          /\ \A pretty_print \in BOOLEAN :
                TextOf(metadata', pretty_print) = TextOf(metadata, pretty_print)
          /\ \A k \in 1..Len(metadata.kids) :
                Occurrences(metadata'.kids, metadata.kids[k])
                    = Occurrences(metadata.kids, metadata.kids[k])]_vars

-----------------------------------------------------------------------------
(* Properties of the other languages *)

NoDuplicate(seq) == \A i, j \in 1..Len(seq) : seq[i] = seq[j] => i = j

\* C27: Dataset.other_languages never holds a language twice:
\* add_other_language of a language already in the list leaves the list as
\* it is, and of a new language appends it at the end.
C27_NoDuplicateLanguage ==
    [][/\ NoDuplicate(dataset'.other_languages)
       /\ last'.op = "add_other_language" =>
             LET language == last'.args[1]
                 before == dataset.other_languages
             IN dataset'.other_languages =
                    IF \E i \in 1..Len(before) : before[i] = language
                    THEN before
                    ELSE Append(before, language)]_vars

\* add_other_language has been called a second time with the same language
C27_Witness ==
    /\ last.op = "add_other_language"
    /\ last.outcome = "ok"
    /\ Len(added["other_language"]) = 2
    /\ Len(dataset.other_languages) = 1

-----------------------------------------------------------------------------
(* Properties of the tree of CCMMMetadataHandler *)

\* C28: each required-field flag agrees with the tree, also after
\* load_from_file: the flag of title, publication_year and identifier is
\* true exactly when the root has a child with that tag.
C28_FlagsAgreeWithTree ==
    \A f \in DOMAIN required_fields :
        required_fields[f] <=> (find_child(metadata, f) # 0)

\* no file has been loaded into the handler
FreshHandler == "CCMMMetadataHandler.load_from_file" \notin succeeded

\* the setter of each single-valued child, and the text its argument leaves
SingleSetter ==
    [title |-> "CCMMMetadataHandler.set_title",
     publication_year |-> "CCMMMetadataHandler.set_publication_year",
     version |-> "CCMMMetadataHandler.set_version"]

TextGiven(c) ==
    IF c.op = "CCMMMetadataHandler.set_publication_year"
    THEN str(c.args[1])
    ELSE c.args[1]

\* the texts of the children of the root with a tag
TextsOf(root, tag) ==
    LET found == OfTag(root.kids, tag)
    IN [i \in 1..Len(found) |-> found[i].text]

\* C29: on a handler into which no file was loaded the root has at most one
\* title, one publication_year and one version child, and each holds the
\* value of the most recent successful call of its setter: a successful
\* setter leaves exactly its argument, every other call leaves the value
\* as it was.
C29_SingleValued ==
    [][FreshHandler' =>
          \A tag \in DOMAIN SingleSetter :
              /\ Len(TextsOf(metadata', tag)) <= 1
              /\ IF last'.op = SingleSetter[tag] /\ last'.outcome = "ok"
                 THEN TextsOf(metadata', tag) = <<TextGiven(last')>>
                 ELSE TextsOf(metadata', tag) = TextsOf(metadata, tag)]_vars

\* set_title has overwritten a title that other children had followed
C29_Witness ==
    /\ FreshHandler
    /\ last.op = "CCMMMetadataHandler.set_title"
    /\ last.outcome = "ok"
    /\ Len(metadata.kids) >= 2
    /\ metadata.kids[1].tag = "title"
    /\ metadata.kids[1].text = TitleB

-----------------------------------------------------------------------------
(* Properties of the structural check *)

\* C30: structural validity is monotone: once the title is not blank and
\* the identifiers, metadata records, qualified relations, time references
\* and subjects are not empty, the structural check of is_valid passes
\* after every later operation of the facade, accepted or rejected.
C30_StructuralMonotone ==
    [][SixConditions(dataset) =>
          SixConditions(dataset') /\ StructuralOk(dataset')]_vars

\* set_title has been rejected on a dataset that passes the structural
\* check
C30_Witness ==
    /\ last.op = "set_title"
    /\ last.outcome = "ValueError"
    /\ SixConditions(dataset)
    /\ StructuralOk(dataset)
=============================================================================
